---- MODULE Spec2Model ----
(***************************************************************************)
(* Model of the BankViewPro scoring engine (src/utils/scoring_engine.py)   *)
(* and of the two places that call it: the sidebar of main() in src/app.py *)
(* and render_overview() in src/views/overview.py.                         *)
(*                                                                         *)
(* Numbers.  The program computes in binary floating point; the model      *)
(* computes the same expressions in exact rational arithmetic, held in     *)
(* scaled integers:                                                        *)
(*   - a metric value v is held as 10*v (tenths), so that every            *)
(*     breakpoint of every metrics_config table is an integer;             *)
(*   - a per-metric sub-score s is held as ScoreUnit*s; ScoreUnit is a     *)
(*     common multiple of every interpolation denominator and of every     *)
(*     'poor' breakpoint of the capitalization table, so every division    *)
(*     the program performs on a tenths value is exact here;               *)
(*   - a weight w is held as 100*w (hundredths); a category score c is     *)
(*     held as CatUnit*c and an overall score o as OverallUnit*o.          *)
(***************************************************************************)
EXTENDS Integers, Sequences, FiniteSets, TLC

VARIABLES historical_data, pc, overall_score, metric_scores, category_scores,
          overview_score, score_info, commentary_score,
          mgmt_score, liquidity_risk_score, asset_quality_risk_score,
          api_key, commentary, last_call,
          tab_results, session_state

(* results of the heuristic scores of the views *)
view_vars == <<mgmt_score, liquidity_risk_score, asset_quality_risk_score>>

(* the narrative generator: whether OPENAI_API_KEY is set, the text the    *)
(* last generate_* call returned, and that call: the function, the section *)
(* or metric it was given, and what became of its remote request           *)
commentary_vars == <<api_key, commentary, last_call>>

(* tab_results: the figures the Profitability and Liquidity tabs compute   *)
(* for display; session_state: st.session_state                            *)
session_vars == <<tab_results, session_state>>

vars == <<historical_data, pc, overall_score, metric_scores, category_scores,
          overview_score, score_info, commentary_score, view_vars, commentary_vars,
          session_vars>>

----------------------------------------------------------------------------
(* Scales *)

ScoreUnit == 16 * 3 * 25

CatUnit == ScoreUnit * 100

OverallUnit == CatUnit * 100

(* Bounds of the input space *)

GridOffset == 2

(* The outcome of a scorer that raised KeyError at data[metric] instead of  *)
(* returning a score.                                                      *)
KeyError == 0 - 2

MaxEarlier == 2

Min(a, b) == IF a <= b THEN a ELSE b

Max(a, b) == IF a >= b THEN a ELSE b

RECURSIVE SumFn(_)
SumFn(f) ==
  IF DOMAIN f = {} THEN 0
  ELSE LET k == CHOOSE x \in DOMAIN f : TRUE
       IN f[k] + SumFn([x \in (DOMAIN f) \ {k} |-> f[x]])

----------------------------------------------------------------------------
(* Configuration tables: breakpoints in tenths, weights in hundredths.     *)

Cfg(w, e, g, f, p, r) ==
  [weight |-> w, excellent |-> e, good |-> g, fair |-> f, poor |-> p, reverse |-> r]

CapitalizationConfig_weights ==
  [capital_adequacy_ratio |-> Cfg(30, 150, 120, 100, 80, FALSE),
   tier1_ratio            |-> Cfg(35, 120, 100, 80, 60, FALSE),
   leverage_ratio         |-> Cfg(30, 80, 60, 50, 30, FALSE)]

CapitalizationConfig ==
  [capital_adequacy_ratio |-> Cfg(35, 150, 120, 100, 80, FALSE),
   tier1_ratio            |-> Cfg(35, 120, 100, 80, 60, FALSE),
   leverage_ratio         |-> Cfg(30, 80, 60, 50, 30, FALSE)]

AssetQualityConfig ==
  [npl_ratio              |-> Cfg(40, 5, 10, 20, 30, TRUE),
   loan_loss_provisions   |-> Cfg(30, 3, 5, 10, 15, TRUE),
   coverage_ratio         |-> Cfg(20, 1200, 1000, 800, 600, FALSE),
   asset_classification   |-> Cfg(10, 10, 20, 40, 60, TRUE)]

ProfitabilityConfig_flat ==
  [return_on_assets       |-> Cfg(25, 15, 12, 8, 8, FALSE),
   return_on_equity       |-> Cfg(25, 150, 120, 80, 40, FALSE),
   net_interest_margin    |-> Cfg(25, 40, 35, 25, 15, FALSE),
   cost_to_income_ratio   |-> Cfg(15, 500, 600, 700, 800, TRUE),
   earnings_per_share     |-> Cfg(10, 100, 80, 50, 20, FALSE)]

ProfitabilityConfig ==
  [return_on_assets       |-> Cfg(25, 15, 12, 8, 4, FALSE),
   return_on_equity       |-> Cfg(25, 150, 120, 80, 40, FALSE),
   net_interest_margin    |-> Cfg(25, 40, 35, 25, 15, FALSE),
   cost_to_income_ratio   |-> Cfg(15, 500, 600, 700, 800, TRUE),
   earnings_per_share     |-> Cfg(10, 100, 80, 50, 20, FALSE)]

LiquidityConfig ==
  [liquidity_coverage_ratio |-> Cfg(35, 1300, 1200, 1100, 1000, FALSE),
   net_stable_funding_ratio |-> Cfg(35, 1200, 1100, 1050, 1000, FALSE),
   loan_to_deposit_ratio    |-> Cfg(20, 750, 800, 850, 900, TRUE),
   cash_ratio               |-> Cfg(10, 120, 100, 70, 50, FALSE)]

category_weights_equal ==
  [capitalization |-> 25, asset_quality |-> 25, profitability |-> 25, liquidity |-> 25]

category_weights_heavy ==
  [capitalization |-> 25, asset_quality |-> 30, profitability |-> 25, liquidity |-> 25]

category_weights_swapped ==
  [capitalization |-> 25, asset_quality |-> 25, profitability |-> 30, liquidity |-> 20]

category_weights ==
  [capitalization |-> 25, asset_quality |-> 30, profitability |-> 25, liquidity |-> 20]

Categories == DOMAIN category_weights

ConfigOf(cat) ==
  CASE cat = "capitalization" -> CapitalizationConfig
    [] cat = "asset_quality"  -> AssetQualityConfig
    [] cat = "profitability"  -> ProfitabilityConfig
    [] cat = "liquidity"      -> LiquidityConfig

AllConfig ==
  CapitalizationConfig @@ AssetQualityConfig @@ ProfitabilityConfig @@ LiquidityConfig

Metrics == DOMAIN AllConfig

CategoryOf(m) == CHOOSE cat \in Categories : m \in DOMAIN ConfigOf(cat)

----------------------------------------------------------------------------
(* Per-metric scoring ladders, one per category scorer as in the source.   *)

CapitalizationMetricScore_slope(value, config) ==
  IF value >= config.excellent THEN 10 * ScoreUnit
  ELSE IF value >= config.good THEN
    7 * ScoreUnit + (3 * ScoreUnit * (value - config.good)) \div (config.excellent - config.good)
  ELSE IF value >= config.fair THEN
    5 * ScoreUnit + (3 * ScoreUnit * (value - config.fair)) \div (config.good - config.fair)
  ELSE IF value >= config.poor THEN
    2 * ScoreUnit + (3 * ScoreUnit * (value - config.poor)) \div (config.fair - config.poor)
  ELSE IF config.poor > 0 THEN 1 * ScoreUnit + (ScoreUnit * value) \div config.poor
  ELSE 1 * ScoreUnit

CapitalizationMetricScore_jump(value, config) ==
  IF value >= config.excellent THEN 10 * ScoreUnit
  ELSE IF value >= config.good THEN
    7 * ScoreUnit + (3 * ScoreUnit * (value - config.good)) \div (config.excellent - config.good)
  ELSE IF value >= config.fair THEN
    5 * ScoreUnit + (2 * ScoreUnit * (value - config.fair)) \div (config.good - config.fair)
  ELSE IF value >= config.poor THEN
    2 * ScoreUnit + (3 * ScoreUnit * (value - config.poor)) \div (config.fair - config.poor)
  ELSE IF config.poor > 0 THEN 2 * ScoreUnit + (ScoreUnit * value) \div config.poor
  ELSE 1 * ScoreUnit

(* scoring_engine.py 55-64: no 'reverse' handling; below 'poor' the        *)
(* sub-score is 1 + value/poor when poor > 0.                              *)
CapitalizationMetricScore(value, config) ==
  IF value >= config.excellent THEN 10 * ScoreUnit
  ELSE IF value >= config.good THEN
    7 * ScoreUnit + (3 * ScoreUnit * (value - config.good)) \div (config.excellent - config.good)
  ELSE IF value >= config.fair THEN
    5 * ScoreUnit + (2 * ScoreUnit * (value - config.fair)) \div (config.good - config.fair)
  ELSE IF value >= config.poor THEN
    2 * ScoreUnit + (3 * ScoreUnit * (value - config.poor)) \div (config.fair - config.poor)
  ELSE IF config.poor > 0 THEN 1 * ScoreUnit + (ScoreUnit * value) \div config.poor
  ELSE 1 * ScoreUnit

AssetQualityMetricScore_uniform(value, config) ==
  IF config.reverse THEN
    IF value <= config.excellent THEN 10 * ScoreUnit
    ELSE IF value <= config.good THEN
      7 * ScoreUnit + (3 * ScoreUnit * (config.good - value)) \div (config.good - config.excellent)
    ELSE IF value <= config.fair THEN
      5 * ScoreUnit + (2 * ScoreUnit * (config.fair - value)) \div (config.fair - config.good)
    ELSE IF value <= config.poor THEN
      2 * ScoreUnit + (3 * ScoreUnit * (config.poor - value)) \div (config.poor - config.fair)
    ELSE 1 * ScoreUnit
  ELSE
    IF value >= config.excellent THEN 10 * ScoreUnit
    ELSE IF value >= config.good THEN
      7 * ScoreUnit + (3 * ScoreUnit * (value - config.good)) \div (config.excellent - config.good)
    ELSE IF value >= config.fair THEN
      5 * ScoreUnit + (2 * ScoreUnit * (value - config.fair)) \div (config.good - config.fair)
    ELSE IF value >= config.poor THEN
      2 * ScoreUnit + (3 * ScoreUnit * (value - config.poor)) \div (config.fair - config.poor)
    ELSE IF config.poor > 0 THEN 1 * ScoreUnit + (ScoreUnit * value) \div config.poor
    ELSE 1 * ScoreUnit

(* scoring_engine.py 85-106 *)
AssetQualityMetricScore(value, config) ==
  IF config.reverse THEN
    IF value <= config.excellent THEN 10 * ScoreUnit
    ELSE IF value <= config.good THEN
      7 * ScoreUnit + (3 * ScoreUnit * (config.good - value)) \div (config.good - config.excellent)
    ELSE IF value <= config.fair THEN
      5 * ScoreUnit + (2 * ScoreUnit * (config.fair - value)) \div (config.fair - config.good)
    ELSE IF value <= config.poor THEN
      2 * ScoreUnit + (3 * ScoreUnit * (config.poor - value)) \div (config.poor - config.fair)
    ELSE 1 * ScoreUnit
  ELSE
    IF value >= config.excellent THEN 10 * ScoreUnit
    ELSE IF value >= config.good THEN
      7 * ScoreUnit + (3 * ScoreUnit * (value - config.good)) \div (config.excellent - config.good)
    ELSE IF value >= config.fair THEN
      5 * ScoreUnit + (2 * ScoreUnit * (value - config.fair)) \div (config.good - config.fair)
    ELSE IF value >= config.poor THEN
      2 * ScoreUnit + (3 * ScoreUnit * (value - config.poor)) \div (config.fair - config.poor)
    ELSE 1 * ScoreUnit

ProfitabilityMetricScore_floor(value, config) ==
  IF config.reverse THEN
    IF value <= config.excellent THEN 10 * ScoreUnit
    ELSE IF value <= config.good THEN
      7 * ScoreUnit + (3 * ScoreUnit * (config.good - value)) \div (config.good - config.excellent)
    ELSE IF value <= config.fair THEN
      5 * ScoreUnit + (2 * ScoreUnit * (config.fair - value)) \div (config.fair - config.good)
    ELSE IF value <= config.poor THEN
      2 * ScoreUnit + (3 * ScoreUnit * (config.poor - value)) \div (config.poor - config.fair)
    ELSE 2 * ScoreUnit
  ELSE
    IF value >= config.excellent THEN 10 * ScoreUnit
    ELSE IF value >= config.good THEN
      7 * ScoreUnit + (3 * ScoreUnit * (value - config.good)) \div (config.excellent - config.good)
    ELSE IF value >= config.fair THEN
      5 * ScoreUnit + (2 * ScoreUnit * (value - config.fair)) \div (config.good - config.fair)
    ELSE IF value >= config.poor THEN
      2 * ScoreUnit + (3 * ScoreUnit * (value - config.poor)) \div (config.fair - config.poor)
    ELSE 1 * ScoreUnit

(* scoring_engine.py 128-149 *)
ProfitabilityMetricScore(value, config) ==
  IF config.reverse THEN
    IF value <= config.excellent THEN 10 * ScoreUnit
    ELSE IF value <= config.good THEN
      7 * ScoreUnit + (3 * ScoreUnit * (config.good - value)) \div (config.good - config.excellent)
    ELSE IF value <= config.fair THEN
      5 * ScoreUnit + (2 * ScoreUnit * (config.fair - value)) \div (config.fair - config.good)
    ELSE IF value <= config.poor THEN
      2 * ScoreUnit + (3 * ScoreUnit * (config.poor - value)) \div (config.poor - config.fair)
    ELSE 1 * ScoreUnit
  ELSE
    IF value >= config.excellent THEN 10 * ScoreUnit
    ELSE IF value >= config.good THEN
      7 * ScoreUnit + (3 * ScoreUnit * (value - config.good)) \div (config.excellent - config.good)
    ELSE IF value >= config.fair THEN
      5 * ScoreUnit + (2 * ScoreUnit * (value - config.fair)) \div (config.good - config.fair)
    ELSE IF value >= config.poor THEN
      2 * ScoreUnit + (3 * ScoreUnit * (value - config.poor)) \div (config.fair - config.poor)
    ELSE 1 * ScoreUnit

LiquidityMetricScore_sign(value, config) ==
  IF config.reverse THEN
    IF value <= config.excellent THEN 10 * ScoreUnit
    ELSE IF value <= config.good THEN
      7 * ScoreUnit + (3 * ScoreUnit * (value - config.excellent)) \div (config.good - config.excellent)
    ELSE IF value <= config.fair THEN
      5 * ScoreUnit + (2 * ScoreUnit * (config.fair - value)) \div (config.fair - config.good)
    ELSE IF value <= config.poor THEN
      2 * ScoreUnit + (3 * ScoreUnit * (config.poor - value)) \div (config.poor - config.fair)
    ELSE 1 * ScoreUnit
  ELSE
    IF value >= config.excellent THEN 10 * ScoreUnit
    ELSE IF value >= config.good THEN
      7 * ScoreUnit + (3 * ScoreUnit * (value - config.good)) \div (config.excellent - config.good)
    ELSE IF value >= config.fair THEN
      5 * ScoreUnit + (2 * ScoreUnit * (value - config.fair)) \div (config.good - config.fair)
    ELSE IF value >= config.poor THEN
      2 * ScoreUnit + (3 * ScoreUnit * (value - config.poor)) \div (config.fair - config.poor)
    ELSE 1 * ScoreUnit

(* scoring_engine.py 170-191 *)
LiquidityMetricScore(value, config) ==
  IF config.reverse THEN
    IF value <= config.excellent THEN 10 * ScoreUnit
    ELSE IF value <= config.good THEN
      7 * ScoreUnit + (3 * ScoreUnit * (config.good - value)) \div (config.good - config.excellent)
    ELSE IF value <= config.fair THEN
      5 * ScoreUnit + (2 * ScoreUnit * (config.fair - value)) \div (config.fair - config.good)
    ELSE IF value <= config.poor THEN
      2 * ScoreUnit + (3 * ScoreUnit * (config.poor - value)) \div (config.poor - config.fair)
    ELSE 1 * ScoreUnit
  ELSE
    IF value >= config.excellent THEN 10 * ScoreUnit
    ELSE IF value >= config.good THEN
      7 * ScoreUnit + (3 * ScoreUnit * (value - config.good)) \div (config.excellent - config.good)
    ELSE IF value >= config.fair THEN
      5 * ScoreUnit + (2 * ScoreUnit * (value - config.fair)) \div (config.good - config.fair)
    ELSE IF value >= config.poor THEN
      2 * ScoreUnit + (3 * ScoreUnit * (value - config.poor)) \div (config.fair - config.poor)
    ELSE 1 * ScoreUnit

(* The sub-score the program computes for metric m at value v: the ladder  *)
(* of the category scorer whose table holds m.                             *)
MetricScore(m, v) ==
  CASE m \in DOMAIN CapitalizationConfig -> CapitalizationMetricScore(v, CapitalizationConfig[m])
    [] m \in DOMAIN AssetQualityConfig   -> AssetQualityMetricScore(v, AssetQualityConfig[m])
    [] m \in DOMAIN ProfitabilityConfig  -> ProfitabilityMetricScore(v, ProfitabilityConfig[m])
    [] m \in DOMAIN LiquidityConfig      -> LiquidityMetricScore(v, LiquidityConfig[m])

----------------------------------------------------------------------------
(* Category scorers and the overall scorer.                                *)

calculate_capitalization_score_unclamped(data) ==
  LET metrics_config == CapitalizationConfig
  IN SumFn([metric \in DOMAIN metrics_config |->
              CapitalizationMetricScore(data[metric], metrics_config[metric])
                * metrics_config[metric].weight])

calculate_capitalization_score(data) ==
  LET metrics_config == CapitalizationConfig
      total_score == SumFn([metric \in DOMAIN metrics_config |->
                       CapitalizationMetricScore(data[metric], metrics_config[metric])
                         * metrics_config[metric].weight])
  IN IF \E metric \in DOMAIN metrics_config : metric \notin DOMAIN data
     THEN KeyError
     ELSE Min(10 * CatUnit, Max(1 * CatUnit, total_score))

calculate_asset_quality_score(data) ==
  LET metrics_config == AssetQualityConfig
      total_score == SumFn([metric \in DOMAIN metrics_config |->
                       AssetQualityMetricScore(data[metric], metrics_config[metric])
                         * metrics_config[metric].weight])
  IN IF \E metric \in DOMAIN metrics_config : metric \notin DOMAIN data
     THEN KeyError
     ELSE Min(10 * CatUnit, Max(1 * CatUnit, total_score))

calculate_profitability_score(data) ==
  LET metrics_config == ProfitabilityConfig
      total_score == SumFn([metric \in DOMAIN metrics_config |->
                       ProfitabilityMetricScore(data[metric], metrics_config[metric])
                         * metrics_config[metric].weight])
  IN IF \E metric \in DOMAIN metrics_config : metric \notin DOMAIN data
     THEN KeyError
     ELSE Min(10 * CatUnit, Max(1 * CatUnit, total_score))

calculate_liquidity_score(data) ==
  LET metrics_config == LiquidityConfig
      total_score == SumFn([metric \in DOMAIN metrics_config |->
                       LiquidityMetricScore(data[metric], metrics_config[metric])
                         * metrics_config[metric].weight])
  IN IF \E metric \in DOMAIN metrics_config : metric \notin DOMAIN data
     THEN KeyError
     ELSE Min(10 * CatUnit, Max(1 * CatUnit, total_score))

Last_first(s) == s[1]

Last(s) == s[Len(s)]

calculate_overall_score_offset(bank_data) ==
  LET latest_data == Last(bank_data)
      cap_score == calculate_capitalization_score(latest_data)
      asset_score == calculate_asset_quality_score(latest_data)
      profit_score == calculate_profitability_score(latest_data)
      liquidity_score == calculate_liquidity_score(latest_data)
      weighted == cap_score * category_weights["capitalization"]
                  + asset_score * category_weights["asset_quality"]
                  + profit_score * category_weights["profitability"]
                  + liquidity_score * category_weights["liquidity"]
                  + OverallUnit \div 2
  IN IF KeyError \in {cap_score, asset_score, profit_score, liquidity_score}
     THEN KeyError
     ELSE Min(10 * OverallUnit, Max(1 * OverallUnit, weighted))

calculate_overall_score_default(bank_data) ==
  LET latest_data == Last(bank_data)
      OrZero(x) == IF x = KeyError THEN 0 ELSE x
      cap_score == OrZero(calculate_capitalization_score(latest_data))
      asset_score == OrZero(calculate_asset_quality_score(latest_data))
      profit_score == OrZero(calculate_profitability_score(latest_data))
      liquidity_score == OrZero(calculate_liquidity_score(latest_data))
      weighted == cap_score * category_weights["capitalization"]
                  + asset_score * category_weights["asset_quality"]
                  + profit_score * category_weights["profitability"]
                  + liquidity_score * category_weights["liquidity"]
  IN Min(10 * OverallUnit, Max(1 * OverallUnit, weighted))

calculate_overall_score(bank_data) ==
  LET latest_data == Last(bank_data)
      cap_score == calculate_capitalization_score(latest_data)
      asset_score == calculate_asset_quality_score(latest_data)
      profit_score == calculate_profitability_score(latest_data)
      liquidity_score == calculate_liquidity_score(latest_data)
      weighted == cap_score * category_weights["capitalization"]
                  + asset_score * category_weights["asset_quality"]
                  + profit_score * category_weights["profitability"]
                  + liquidity_score * category_weights["liquidity"]
  IN IF KeyError \in {cap_score, asset_score, profit_score, liquidity_score}
     THEN KeyError
     ELSE Min(10 * OverallUnit, Max(1 * OverallUnit, weighted))

(* The outcome of calculate_category_scores when one of its four calls     *)
(* raised: no dictionary is returned.                                      *)
NoCategoryScores ==
  [capitalization |-> KeyError, asset_quality |-> KeyError,
   profitability |-> KeyError, liquidity |-> KeyError]

calculate_category_scores(bank_data) ==
  LET latest_data == Last(bank_data)
      scores == [capitalization |-> calculate_capitalization_score(latest_data),
                 asset_quality  |-> calculate_asset_quality_score(latest_data),
                 profitability  |-> calculate_profitability_score(latest_data),
                 liquidity      |-> calculate_liquidity_score(latest_data)]
  IN IF \E c \in DOMAIN scores : scores[c] = KeyError THEN NoCategoryScores ELSE scores

get_score_interpretation_strict(score) ==
  IF 10 * score > 85 * OverallUnit THEN
    [rating |-> "AAA", description |-> "Excellent Credit Quality", color |-> "green"]
  ELSE IF 10 * score >= 75 * OverallUnit THEN
    [rating |-> "AA", description |-> "Very Good Credit Quality", color |-> "green"]
  ELSE IF 10 * score >= 65 * OverallUnit THEN
    [rating |-> "A", description |-> "Good Credit Quality", color |-> "blue"]
  ELSE IF 10 * score >= 55 * OverallUnit THEN
    [rating |-> "BBB", description |-> "Fair Credit Quality", color |-> "orange"]
  ELSE IF 10 * score >= 45 * OverallUnit THEN
    [rating |-> "BB", description |-> "Speculative Credit Quality", color |-> "orange"]
  ELSE IF 10 * score >= 35 * OverallUnit THEN
    [rating |-> "B", description |-> "Highly Speculative", color |-> "red"]
  ELSE
    [rating |-> "CCC", description |-> "Poor Credit Quality", color |-> "red"]

(* score is held in OverallUnit; 8.5 is 85 tenths.                         *)
get_score_interpretation(score) ==
  IF 10 * score >= 85 * OverallUnit THEN
    [rating |-> "AAA", description |-> "Excellent Credit Quality", color |-> "green"]
  ELSE IF 10 * score >= 75 * OverallUnit THEN
    [rating |-> "AA", description |-> "Very Good Credit Quality", color |-> "green"]
  ELSE IF 10 * score >= 65 * OverallUnit THEN
    [rating |-> "A", description |-> "Good Credit Quality", color |-> "blue"]
  ELSE IF 10 * score >= 55 * OverallUnit THEN
    [rating |-> "BBB", description |-> "Fair Credit Quality", color |-> "orange"]
  ELSE IF 10 * score >= 45 * OverallUnit THEN
    [rating |-> "BB", description |-> "Speculative Credit Quality", color |-> "orange"]
  ELSE IF 10 * score >= 35 * OverallUnit THEN
    [rating |-> "B", description |-> "Highly Speculative", color |-> "red"]
  ELSE
    [rating |-> "CCC", description |-> "Poor Credit Quality", color |-> "red"]

OverviewMean_weighted(scores) ==
  25 * scores.capitalization + 30 * scores.asset_quality
    + 25 * scores.profitability + 20 * scores.liquidity

(* overview.py 19: sum(category_scores.values()) / len(category_scores),   *)
(* brought from CatUnit to OverallUnit.                                    *)
OverviewMean(scores) ==
  (SumFn(scores) * 100) \div Cardinality(DOMAIN scores)

----------------------------------------------------------------------------
(* Input space *)

Breakpoint(m, level) ==
  CASE level = "excellent" -> AllConfig[m].excellent
    [] level = "good"      -> AllConfig[m].good
    [] level = "fair"      -> AllConfig[m].fair
    [] level = "poor"      -> AllConfig[m].poor

Levels == {"excellent", "good", "fair", "poor"}

(* Values far outside every table: -1000.0, 0 and 1e7. *)
ExtremeValues == {0 - 10000, 0, 100000000}

(* Values of metric m around each of its breakpoints, the midpoints of     *)
(* its three segments, and the extremes.                                   *)
Grid(m) ==
  { Breakpoint(m, l) + d : l \in Levels, d \in (0 - GridOffset)..GridOffset }
    \cup { (AllConfig[m].excellent + AllConfig[m].good) \div 2,
           (AllConfig[m].good + AllConfig[m].fair) \div 2,
           (AllConfig[m].fair + AllConfig[m].poor) \div 2 }
    \cup ExtremeValues

(* A record with category scores 8, 6, 7 and 9. *)
ScenarioRecord ==
  [capital_adequacy_ratio |-> 119, tier1_ratio |-> 112, leverage_ratio |-> 69,
   npl_ratio |-> 19, loan_loss_provisions |-> 10, coverage_ratio |-> 1160,
   asset_classification |-> 36,
   return_on_assets |-> 11, return_on_equity |-> 141, net_interest_margin |-> 38,
   cost_to_income_ratio |-> 720, earnings_per_share |-> 24,
   liquidity_coverage_ratio |-> 1269, net_stable_funding_ratio |-> 1191,
   loan_to_deposit_ratio |-> 770, cash_ratio |-> 94]

(* One step beyond 'poor' on the unfavorable side of every metric. *)
WorseRecord ==
  [m \in Metrics |-> IF AllConfig[m].reverse THEN AllConfig[m].poor + 1
                     ELSE AllConfig[m].poor - 1]

BaseRecords ==
  { [m \in Metrics |-> Breakpoint(m, l)] : l \in Levels }
    \cup {ScenarioRecord, WorseRecord}

NoScore == 0 - 1

NoCommentary == [kind |-> "none"]

NoCall == [fn |-> "none", arg |-> "none", remote |-> "not_called"]

(* two of the ten institutions of generate_sample_data: one whose name     *)
(* contains "Bank" and one whose name does not                             *)
institutions == {"Bank of America Corporation", "Morgan Stanley"}

(* 'bank_data' not yet in st.session_state *)
NoBankData ==
  [inst \in institutions |-> [historical_data |-> <<>>, institution_type |-> "none"]]

NoSession == [bank_data |-> NoBankData, selected_bank |-> "none"]

NoTabResults ==
  [profit_score |-> NoScore, efficiency_score |-> NoScore, funding_score |-> NoScore,
   funding_label |-> "none", runway_days |-> NoScore]

NoInfo == [rating |-> "none", description |-> "none", color |-> "none"]

----------------------------------------------------------------------------
(* The program: one run of main() computes the sidebar score, then renders *)
(* the Overview tab; a rerun starts over on the same session data.         *)
(* The history holds a base record followed by the latest record: the base *)
(* record with one metric moved to a value of that metric's grid.          *)
(* metric_scores records the value of the local metric_score of each loop  *)
(* iteration of the four category scorers.                                 *)

Init ==
  /\ \E b \in BaseRecords, m \in Metrics :
       \E v \in Grid(m) : historical_data = <<b, [b EXCEPT ![m] = v]>>
  /\ pc = "main"
  /\ overall_score = NoScore
  /\ metric_scores = [m \in Metrics |-> NoScore]
  /\ category_scores = [c \in Categories |-> NoScore]
  /\ overview_score = NoScore
  /\ score_info = NoInfo
  /\ commentary_score = NoScore
  /\ mgmt_score = NoScore
  /\ liquidity_risk_score = NoScore
  /\ asset_quality_risk_score = NoScore
  /\ api_key = FALSE
  /\ commentary = NoCommentary
  /\ last_call = NoCall
  /\ tab_results = NoTabResults
  /\ session_state = NoSession

(* app.py 131; an exception raised by the scorer leaves main() at once     *)
MainSidebar ==
  /\ pc = "main"
  /\ IF calculate_overall_score(historical_data) = KeyError
     THEN /\ pc' = "error"
          /\ UNCHANGED overall_score
     ELSE /\ overall_score' = calculate_overall_score(historical_data)
          /\ pc' = "overview"
  /\ UNCHANGED <<historical_data, metric_scores, category_scores, overview_score,
                 score_info, commentary_score, view_vars, commentary_vars, session_vars>>

RenderOverview_writeback ==
  /\ pc = "overview"
  /\ IF calculate_category_scores(historical_data) = NoCategoryScores
     THEN /\ pc' = "error"
          /\ UNCHANGED <<historical_data, metric_scores, category_scores, overview_score,
                         score_info, commentary_score>>
     ELSE /\ metric_scores' = [m \in Metrics |-> MetricScore(m, Last(historical_data)[m])]
          /\ category_scores' = calculate_category_scores(historical_data)
          /\ overview_score' = OverviewMean(category_scores')
          /\ score_info' = get_score_interpretation(overview_score')
          /\ commentary_score' = overview_score'
          /\ historical_data' =
               [historical_data EXCEPT ![Len(historical_data)] =
                  [m \in Metrics |-> Max(0, Last(historical_data)[m])]]
          /\ pc' = "done"
  /\ UNCHANGED <<overall_score, view_vars, commentary_vars, session_vars>>

(* overview.py 18-22 and 116 *)
RenderOverview ==
  /\ pc = "overview"
  /\ IF calculate_category_scores(historical_data) = NoCategoryScores
     THEN /\ pc' = "error"
          /\ UNCHANGED <<metric_scores, category_scores, overview_score, score_info,
                         commentary_score>>
     ELSE /\ metric_scores' = [m \in Metrics |-> MetricScore(m, Last(historical_data)[m])]
          /\ category_scores' = calculate_category_scores(historical_data)
          /\ overview_score' = OverviewMean(category_scores')
          /\ score_info' = get_score_interpretation(overview_score')
          /\ commentary_score' = overview_score'
          /\ pc' = "done"
  /\ UNCHANGED <<historical_data, overall_score, view_vars, commentary_vars, session_vars>>

(* Streamlit reruns main() from the top; the locals of the last run are    *)
(* gone, the session's bank data stays.                                    *)
Rerun ==
  /\ pc \in {"done", "error"}
  /\ pc' = "main"
  /\ overall_score' = NoScore
  /\ metric_scores' = [m \in Metrics |-> NoScore]
  /\ category_scores' = [c \in Categories |-> NoScore]
  /\ overview_score' = NoScore
  /\ score_info' = NoInfo
  /\ commentary_score' = NoScore
  /\ UNCHANGED <<historical_data, view_vars, commentary_vars, session_vars>>

Next == MainSidebar \/ RenderOverview \/ Rerun

Spec == Init /\ [][Next]_vars

----------------------------------------------------------------------------
(* Vocabulary of the properties *)

latest == Last(historical_data)

(* a is at least as favorable a value of metric m as b *)
AtLeastAsFavorable(m, a, b) ==
  IF AllConfig[m].reverse THEN a <= b ELSE a >= b

(* how far a lies from b in the favorable direction of m *)
FavorableDistance(m, a, b) ==
  IF AllConfig[m].reverse THEN b - a ELSE a - b

CategoryScore(cat, data) ==
  CASE cat = "capitalization" -> calculate_capitalization_score(data)
    [] cat = "asset_quality"  -> calculate_asset_quality_score(data)
    [] cat = "profitability"  -> calculate_profitability_score(data)
    [] cat = "liquidity"      -> calculate_liquidity_score(data)

InScoreRange(x, unit) == 1 * unit <= x /\ x <= 10 * unit

----------------------------------------------------------------------------
(* C1: for every record, including records with zero, negative and very    *)
(* large values, each of the four category scores and the overall score    *)
(* that the program computes lies in the closed interval [1, 10].          *)
C1_ScoresInRange ==
  /\ pc \in {"overview", "done"} => InScoreRange(overall_score, OverallUnit)
  /\ pc = "done" => \A c \in Categories : InScoreRange(category_scores[c], CatUnit)

(* a record with a large negative capital ratio: the weighted sum of the   *)
(* capitalization sub-scores is below 1 and the category score is 1        *)
C1_Witness ==
  /\ pc = "done"
  /\ latest.capital_adequacy_ratio < 0
  /\ category_scores.capitalization = 1 * CatUnit
  /\ category_scores.liquidity = 10 * CatUnit
  /\ InScoreRange(overall_score, OverallUnit)

(* C2: moving one metric of the record in its favorable direction, all     *)
(* other metrics fixed, never decreases that metric's sub-score, its       *)
(* category score or the overall score, across every breakpoint.           *)
C2_Monotonic ==
  pc = "done" =>
    \A m \in Metrics : \A v2 \in Grid(m) :
      AtLeastAsFavorable(m, v2, latest[m]) =>
        LET rec2 == [latest EXCEPT ![m] = v2]
        IN /\ MetricScore(m, v2) >= metric_scores[m]
           /\ CategoryScore(CategoryOf(m), rec2) >= category_scores[CategoryOf(m)]
           /\ calculate_overall_score(<<rec2>>) >= overall_score

(* a capital ratio just below 'poor': raising it to 'poor' raises the      *)
(* sub-score, the category score and the overall score                     *)
C2_Witness ==
  /\ pc = "done"
  /\ latest.tier1_ratio = CapitalizationConfig.tier1_ratio.poor - 1
  /\ LET rec2 == [latest EXCEPT !.tier1_ratio = CapitalizationConfig.tier1_ratio.poor]
     IN /\ MetricScore("tier1_ratio", rec2.tier1_ratio) > metric_scores.tier1_ratio
        /\ calculate_capitalization_score(rec2) > category_scores.capitalization
        /\ calculate_overall_score(<<rec2>>) > overall_score

(* C3: a value at least as favorable as 'excellent' gets sub-score 10; a   *)
(* value of a lower-is-better metric above its 'poor' breakpoint gets 1.   *)
C3_Saturation ==
  pc = "done" =>
    \A m \in Metrics :
      /\ AtLeastAsFavorable(m, latest[m], AllConfig[m].excellent)
           => metric_scores[m] = 10 * ScoreUnit
      /\ (AllConfig[m].reverse /\ latest[m] > AllConfig[m].poor)
           => metric_scores[m] = 1 * ScoreUnit

(* a cost-to-income ratio above 'poor' next to a return on assets above    *)
(* 'excellent'                                                             *)
C3_Witness ==
  /\ pc = "done"
  /\ latest.cost_to_income_ratio > ProfitabilityConfig.cost_to_income_ratio.poor
  /\ metric_scores.cost_to_income_ratio = 1 * ScoreUnit
  /\ latest.return_on_assets > ProfitabilityConfig.return_on_assets.excellent
  /\ metric_scores.return_on_assets = 10 * ScoreUnit

(* C4 as stated: below 'poor', every higher-is-better metric of every      *)
(* category gets 1 + value/poor and every reversed metric gets 1.          *)
C4_Original ==
  pc = "done" =>
    \A m \in Metrics :
      ~AtLeastAsFavorable(m, latest[m], AllConfig[m].poor) =>
        IF AllConfig[m].reverse
        THEN metric_scores[m] = 1 * ScoreUnit
        ELSE AllConfig[m].poor * metric_scores[m]
               = AllConfig[m].poor * ScoreUnit + ScoreUnit * latest[m]

(* C4 (amended): below 'poor', only the metrics of the capitalization      *)
(* scorer get 1 + value/poor; every metric of the asset-quality,           *)
(* profitability and liquidity scorers, higher-is-better or reversed, gets *)
(* a flat 1.                                                               *)
C4_BelowPoor ==
  pc = "done" =>
    \A m \in Metrics :
      ~AtLeastAsFavorable(m, latest[m], AllConfig[m].poor) =>
        IF m \in DOMAIN CapitalizationConfig
        THEN AllConfig[m].poor * metric_scores[m]
               = AllConfig[m].poor * ScoreUnit + ScoreUnit * latest[m]
        ELSE metric_scores[m] = 1 * ScoreUnit

(* a leverage ratio and a coverage ratio both below 'poor' and not zero:   *)
(* the first scored 1 + value/poor, the second 1                           *)
C4_Witness ==
  /\ pc = "done"
  /\ latest.leverage_ratio < CapitalizationConfig.leverage_ratio.poor
  /\ latest.leverage_ratio > 0
  /\ metric_scores.leverage_ratio > 1 * ScoreUnit
  /\ latest.coverage_ratio < AssetQualityConfig.coverage_ratio.poor
  /\ latest.coverage_ratio > 0
  /\ metric_scores.coverage_ratio = 1 * ScoreUnit

(* C5: a value equal to the 'good', 'fair' or 'poor' breakpoint gets       *)
(* sub-score exactly 7, 5 or 2; and just on the less favorable side of     *)
(* 'good' (of 'fair') the sub-score falls short of 7 (of 5) by an amount   *)
(* proportional to the distance from the breakpoint, so there is no jump.  *)
C5_Boundaries ==
  pc = "done" =>
    \A m \in Metrics :
      LET c == AllConfig[m]
          v == latest[m]
      IN /\ v = c.good => metric_scores[m] = 7 * ScoreUnit
         /\ v = c.fair => metric_scores[m] = 5 * ScoreUnit
         /\ v = c.poor => metric_scores[m] = 2 * ScoreUnit
         /\ (AtLeastAsFavorable(m, v, c.fair) /\ ~AtLeastAsFavorable(m, v, c.good)) =>
              (7 * ScoreUnit - metric_scores[m]) * FavorableDistance(m, c.good, c.fair)
                = 2 * ScoreUnit * FavorableDistance(m, c.good, v)
         /\ (AtLeastAsFavorable(m, v, c.poor) /\ ~AtLeastAsFavorable(m, v, c.fair)) =>
              (5 * ScoreUnit - metric_scores[m]) * FavorableDistance(m, c.fair, c.poor)
                = 3 * ScoreUnit * FavorableDistance(m, c.fair, v)

(* npl_ratio = 3.0, the 'poor' breakpoint of a reversed metric, scored 2 *)
C5_Witness ==
  /\ pc = "done"
  /\ latest.npl_ratio = 30
  /\ metric_scores.npl_ratio = 2 * ScoreUnit
  /\ latest.coverage_ratio = AssetQualityConfig.coverage_ratio.good

(* C6: on the segment from 'good' to 'excellent' the sub-score is          *)
(* 7 + 3*(distance from good)/(segment width), from 'fair' to 'good'       *)
(* 5 + 2*(distance from fair)/(width), from 'poor' to 'fair'               *)
(* 2 + 3*(distance from poor)/(width), distances taken in the favorable    *)
(* direction; so it lies in [7,10), [5,7) and [2,5) on the three segments. *)
C6_Interpolation ==
  pc = "done" =>
    \A m \in Metrics :
      LET c == AllConfig[m]
          v == latest[m]
          s == metric_scores[m]
          Within(lo, hi) == AtLeastAsFavorable(m, v, lo) /\ ~AtLeastAsFavorable(m, v, hi)
      IN /\ Within(c.good, c.excellent) =>
              /\ (s - 7 * ScoreUnit) * FavorableDistance(m, c.excellent, c.good)
                   = 3 * ScoreUnit * FavorableDistance(m, v, c.good)
              /\ 7 * ScoreUnit <= s /\ s < 10 * ScoreUnit
         /\ Within(c.fair, c.good) =>
              /\ (s - 5 * ScoreUnit) * FavorableDistance(m, c.good, c.fair)
                   = 2 * ScoreUnit * FavorableDistance(m, v, c.fair)
              /\ 5 * ScoreUnit <= s /\ s < 7 * ScoreUnit
         /\ Within(c.poor, c.fair) =>
              /\ (s - 2 * ScoreUnit) * FavorableDistance(m, c.fair, c.poor)
                   = 3 * ScoreUnit * FavorableDistance(m, v, c.poor)
              /\ 2 * ScoreUnit <= s /\ s < 5 * ScoreUnit

(* a loan-to-deposit ratio (reversed) strictly inside the good-excellent   *)
(* segment next to a cash ratio strictly inside the poor-fair segment      *)
C6_Witness ==
  /\ pc = "done"
  /\ latest.loan_to_deposit_ratio > LiquidityConfig.loan_to_deposit_ratio.excellent
  /\ latest.loan_to_deposit_ratio < LiquidityConfig.loan_to_deposit_ratio.good
  /\ metric_scores.loan_to_deposit_ratio > 7 * ScoreUnit
  /\ metric_scores.loan_to_deposit_ratio < 10 * ScoreUnit
  /\ latest.cash_ratio > LiquidityConfig.cash_ratio.poor
  /\ latest.cash_ratio < LiquidityConfig.cash_ratio.fair
  /\ metric_scores.cash_ratio > 2 * ScoreUnit
  /\ metric_scores.cash_ratio < 5 * ScoreUnit

(* C7: when every metric of a category is at least as favorable as its     *)
(* 'excellent' breakpoint the category score is exactly 10, and when that  *)
(* holds of all four categories the overall score is exactly 10.           *)
C7_AllExcellent ==
  pc = "done" =>
    /\ \A cat \in Categories :
         (\A m \in DOMAIN ConfigOf(cat) :
            AtLeastAsFavorable(m, latest[m], AllConfig[m].excellent))
           => category_scores[cat] = 10 * CatUnit
    /\ (\A m \in Metrics : AtLeastAsFavorable(m, latest[m], AllConfig[m].excellent))
         => overall_score = 10 * OverallUnit

(* capital_adequacy_ratio = 15, tier1_ratio = 12, leverage_ratio = 8 and   *)
(* every other metric at or beyond 'excellent'                             *)
C7_Witness ==
  /\ pc = "done"
  /\ latest.capital_adequacy_ratio = 150
  /\ latest.tier1_ratio = 120
  /\ latest.leverage_ratio = 80
  /\ latest.npl_ratio < AssetQualityConfig.npl_ratio.excellent
  /\ \A m \in Metrics : AtLeastAsFavorable(m, latest[m], AllConfig[m].excellent)
  /\ category_scores.capitalization = 10 * CatUnit
  /\ overall_score = 10 * OverallUnit

(* The record has category scores 8, 6, 7 and 9. *)
ScenarioScores ==
  category_scores = [capitalization |-> 8 * CatUnit, asset_quality |-> 6 * CatUnit,
                     profitability |-> 7 * CatUnit, liquidity |-> 9 * CatUnit]

WeightedSum(scores) ==
  25 * scores.capitalization + 30 * scores.asset_quality
    + 25 * scores.profitability + 20 * scores.liquidity

(* C8 as stated: the sidebar's overall score is the weighted sum           *)
(* 0.25/0.30/0.25/0.20 of the four category scores clamped to [1, 10],     *)
(* and for category scores 8, 6, 7, 9 it is 7.25.                          *)
C8_Original ==
  pc = "done" =>
    /\ overall_score = Min(10 * OverallUnit, Max(1 * OverallUnit, WeightedSum(category_scores)))
    /\ ScenarioScores => overall_score = 725 * (OverallUnit \div 100)

(* C8 (amended): the same weighted sum, clamped; for category scores       *)
(* 8, 6, 7, 9 it is 7.35.                                                  *)
C8_WeightedOverall ==
  pc = "done" =>
    /\ overall_score = Min(10 * OverallUnit, Max(1 * OverallUnit, WeightedSum(category_scores)))
    /\ ScenarioScores => overall_score = 735 * (OverallUnit \div 100)

(* the record with category scores 8, 6, 7, 9 after both scorings *)
C8_Witness ==
  /\ pc = "done"
  /\ ScenarioScores
  /\ overall_score = 735 * (OverallUnit \div 100)

(* C9: the Overview tab's overall score is the unweighted mean of the four *)
(* category scores (7.5 for 8, 6, 7, 9); the rating shown and the score    *)
(* handed to the overall commentary are those of this mean, not of the     *)
(* weighted score.                                                         *)
C9_OverviewMean ==
  pc = "done" =>
    /\ 4 * overview_score
         = 100 * (category_scores.capitalization + category_scores.asset_quality
                  + category_scores.profitability + category_scores.liquidity)
    /\ ScenarioScores => 10 * overview_score = 75 * OverallUnit
    /\ score_info = get_score_interpretation(overview_score)
    /\ commentary_score = overview_score

(* a record whose mean and weighted scores fall in different rating bands: *)
(* the rating shown is the band of the mean                                *)
C9_Witness ==
  /\ pc = "done"
  /\ overview_score # overall_score
  /\ get_score_interpretation(overall_score).rating # get_score_interpretation(overview_score).rating
  /\ score_info.rating = get_score_interpretation(overview_score).rating
  /\ commentary_score = overview_score

----------------------------------------------------------------------------
(* get_score_interpretation on its own: the score is drawn from            *)
(* ProbeScores and interpreted once.                                       *)

ProbeMax == 1100

BandEdges == {85, 75, 65, 55, 45, 35}

(* every hundredth from -1.00 to ProbeMax/100, and the nearest             *)
(* representable scores on either side of each band edge                   *)
ProbeScores ==
  { k * (OverallUnit \div 100) : k \in (0 - 100)..ProbeMax }
    \cup { e * (OverallUnit \div 10) + d : e \in BandEdges, d \in {0 - 1, 1} }

InitInterp ==
  /\ historical_data = <<ScenarioRecord>>
  /\ pc = "interpret"
  /\ overall_score = NoScore
  /\ metric_scores = [m \in Metrics |-> NoScore]
  /\ category_scores = [c \in Categories |-> NoScore]
  /\ overview_score \in ProbeScores
  /\ score_info = NoInfo
  /\ commentary_score = NoScore
  /\ mgmt_score = NoScore
  /\ liquidity_risk_score = NoScore
  /\ asset_quality_risk_score = NoScore
  /\ api_key = FALSE
  /\ commentary = NoCommentary
  /\ last_call = NoCall
  /\ tab_results = NoTabResults
  /\ session_state = NoSession

InterpretScore ==
  /\ pc = "interpret"
  /\ score_info' = get_score_interpretation(overview_score)
  /\ pc' = "interpreted"
  /\ UNCHANGED <<historical_data, overall_score, metric_scores, category_scores,
                 overview_score, commentary_score, view_vars, commentary_vars, session_vars>>

NextInterp == InterpretScore

SpecInterp == InitInterp /\ [][NextInterp]_vars

BandRank(rating) ==
  CASE rating = "AAA" -> 7 [] rating = "AA" -> 6 [] rating = "A" -> 5
    [] rating = "BBB" -> 4 [] rating = "BB" -> 3 [] rating = "B" -> 2
    [] rating = "CCC" -> 1

(* C10: every score gets exactly one band, with lower-inclusive edges      *)
(* 8.5 AAA, 7.5 AA, 6.5 A, 5.5 BBB, 4.5 BB, 3.5 B, below 3.5 CCC; and a    *)
(* higher score never gets a lower band.                                   *)
C10_Bands ==
  pc = "interpreted" =>
    LET s == 10 * overview_score
        U == OverallUnit
        r == score_info.rating
    IN /\ r \in {"AAA", "AA", "A", "BBB", "BB", "B", "CCC"}
       /\ r = "AAA" <=> s >= 85 * U
       /\ r = "AA"  <=> (75 * U <= s /\ s < 85 * U)
       /\ r = "A"   <=> (65 * U <= s /\ s < 75 * U)
       /\ r = "BBB" <=> (55 * U <= s /\ s < 65 * U)
       /\ r = "BB"  <=> (45 * U <= s /\ s < 55 * U)
       /\ r = "B"   <=> (35 * U <= s /\ s < 45 * U)
       /\ r = "CCC" <=> s < 35 * U
       /\ \A s2 \in ProbeScores :
            s2 >= overview_score => BandRank(get_score_interpretation(s2).rating) >= BandRank(r)

(* the score 8.5 itself, rated AAA *)
C10_Witness ==
  /\ pc = "interpreted"
  /\ 10 * overview_score = 85 * OverallUnit
  /\ score_info.rating = "AAA"

----------------------------------------------------------------------------
(* C11: the metric weights of each of the four tables sum to 1, and so do  *)
(* the four category weights; hence a category whose sub-scores are all    *)
(* equal gets that value as its score.                                     *)
C11_WeightsSumToOne ==
  /\ \A cat \in Categories :
       SumFn([m \in DOMAIN ConfigOf(cat) |-> ConfigOf(cat)[m].weight]) = 100
  /\ SumFn(category_weights) = 100
  /\ pc = "done" =>
       /\ \A cat \in Categories : \A m \in DOMAIN ConfigOf(cat) :
            ( /\ \A m2 \in DOMAIN ConfigOf(cat) : metric_scores[m2] = metric_scores[m]
              /\ metric_scores[m] >= 1 * ScoreUnit )
              => category_scores[cat] = 100 * metric_scores[m]
       /\ \A c \in Categories :
            (\A c2 \in Categories : category_scores[c2] = category_scores[c])
              => overall_score = 100 * category_scores[c]

(* every metric at 'good': every sub-score, every category score and the   *)
(* overall score are 7                                                     *)
C11_Witness ==
  /\ pc = "done"
  /\ \A m \in Metrics : metric_scores[m] = 7 * ScoreUnit
  /\ \A c \in Categories : category_scores[c] = 7 * CatUnit
  /\ overall_score = 7 * OverallUnit

(* C12: the four breakpoints of every scored metric are strictly ordered   *)
(* in the favorable direction, so no interpolation denominator is zero.    *)
C12_StrictThresholds ==
  \A m \in Metrics :
    LET c == AllConfig[m]
    IN /\ IF c.reverse
          THEN c.excellent < c.good /\ c.good < c.fair /\ c.fair < c.poor
          ELSE c.excellent > c.good /\ c.good > c.fair /\ c.fair > c.poor
       /\ c.excellent - c.good # 0
       /\ c.good - c.fair # 0
       /\ c.fair - c.poor # 0
       /\ pc = "done" => metric_scores[m] # NoScore

(* a return on assets strictly inside the poor-fair segment, scored by     *)
(* the division of that segment                                            *)
C12_Witness ==
  /\ pc = "done"
  /\ latest.return_on_assets > ProfitabilityConfig.return_on_assets.poor
  /\ latest.return_on_assets < ProfitabilityConfig.return_on_assets.fair
  /\ metric_scores.return_on_assets > 2 * ScoreUnit
  /\ metric_scores.return_on_assets < 5 * ScoreUnit

----------------------------------------------------------------------------
(* Records that lack a metric key.  The latest record is a base record     *)
(* with at most one key removed; the run starts at the sidebar call of     *)
(* main() or directly at render_overview().                                *)

Without(record, key) == [m \in (DOMAIN record) \ {key} |-> record[m]]

InitMissing ==
  /\ \E b \in BaseRecords, removed \in Metrics \cup {"none"} :
       historical_data = <<b, Without(b, removed)>>
  /\ pc \in {"main", "overview"}
  /\ overall_score = NoScore
  /\ metric_scores = [m \in Metrics |-> NoScore]
  /\ category_scores = [c \in Categories |-> NoScore]
  /\ overview_score = NoScore
  /\ score_info = NoInfo
  /\ commentary_score = NoScore
  /\ mgmt_score = NoScore
  /\ liquidity_risk_score = NoScore
  /\ asset_quality_risk_score = NoScore
  /\ api_key = FALSE
  /\ commentary = NoCommentary
  /\ last_call = NoCall
  /\ tab_results = NoTabResults
  /\ session_state = NoSession

SpecMissing == InitMissing /\ [][Next]_vars

MissingKeys == Metrics \ DOMAIN latest

(* C13: when the latest record lacks a metric a category scorer needs,     *)
(* that scorer, calculate_category_scores and calculate_overall_score      *)
(* raise; the run ends in the error and no score is produced from a        *)
(* default value.                                                          *)
C13_MissingMetric ==
  /\ \A cat \in Categories :
       (DOMAIN ConfigOf(cat) \cap MissingKeys # {}) => CategoryScore(cat, latest) = KeyError
  /\ MissingKeys # {} =>
       /\ calculate_overall_score(historical_data) = KeyError
       /\ calculate_category_scores(historical_data) = NoCategoryScores
       /\ pc \in {"main", "overview", "error"}
       /\ overall_score = NoScore
       /\ overview_score = NoScore
       /\ score_info = NoInfo
       /\ commentary_score = NoScore
       /\ \A c \in Categories : category_scores[c] = NoScore
  /\ pc = "error" => MissingKeys # {}

(* a record without npl_ratio: the run has ended in the error, no score *)
C13_Witness ==
  /\ pc = "error"
  /\ "npl_ratio" \notin DOMAIN latest
  /\ "coverage_ratio" \in DOMAIN latest
  /\ overall_score = NoScore
  /\ \A c \in Categories : category_scores[c] = NoScore

----------------------------------------------------------------------------
(* Histories of every length from 1 to MaxEarlier + 1 that end in the      *)
(* given record, the earlier records drawn from the base records.          *)
HistoriesEndingIn(record) ==
  { Append(earlier, record) :
      earlier \in UNION { [1..n -> BaseRecords] : n \in 0..MaxEarlier } }

(* C14: the category scores and the overall score depend only on the last  *)
(* record of the history: every history ending in the same record, of      *)
(* whatever length and earlier content, gets the scores the program        *)
(* computed.                                                               *)
C14_LatestOnly ==
  pc = "done" =>
    \A h2 \in HistoriesEndingIn(latest) :
      /\ calculate_category_scores(h2) = category_scores
      /\ calculate_overall_score(h2) = overall_score

(* a history whose earlier record alone would score differently *)
C14_Witness ==
  /\ pc = "done"
  /\ Len(historical_data) = 2
  /\ historical_data[1] # latest
  /\ calculate_overall_score(<<historical_data[1]>>) # overall_score
  /\ calculate_overall_score(<<WorseRecord, historical_data[1], latest>>) = overall_score

----------------------------------------------------------------------------
(* C15: no scoring step changes the bank data, and the scores the run      *)
(* holds are the scores a further call on the same data returns.           *)
C15_Purity ==
  [][ /\ historical_data' = historical_data
      /\ pc' = "done" =>
           /\ category_scores' = calculate_category_scores(historical_data')
           /\ overall_score' = calculate_overall_score(historical_data')
           /\ score_info' = get_score_interpretation(OverviewMean(category_scores')) ]_vars

(* both scorings have run on a record holding a negative value, and the    *)
(* record still holds it                                                   *)
C15_Witness ==
  /\ pc = "done"
  /\ \E m \in Metrics : latest[m] < 0
  /\ historical_data[1] \in BaseRecords
  /\ overall_score = calculate_overall_score(historical_data)

----------------------------------------------------------------------------
(* C16: every per-metric sub-score lies in [1, 10], for negative values    *)
(* too.                                                                    *)
C16_SubScoresInRange ==
  pc = "done" => \A m \in Metrics : InScoreRange(metric_scores[m], ScoreUnit)

----------------------------------------------------------------------------
(* get_metric_info: the good/fair/poor benchmarks shown by the views, in   *)
(* tenths (data_generator.py 112-225; risk_weighted_assets, which has no   *)
(* benchmark and is not scored, is left out).                              *)

Bench(g, f, p) == [good |-> g, fair |-> f, poor |-> p]

get_metric_info ==
  [capital_adequacy_ratio   |-> Bench(120, 100, 80),
   tier1_ratio              |-> Bench(100, 80, 60),
   leverage_ratio           |-> Bench(50, 40, 30),
   npl_ratio                |-> Bench(10, 20, 30),
   loan_loss_provisions     |-> Bench(5, 10, 15),
   coverage_ratio           |-> Bench(800, 600, 400),
   asset_classification     |-> Bench(20, 40, 60),
   return_on_assets         |-> Bench(12, 8, 4),
   return_on_equity         |-> Bench(120, 80, 40),
   net_interest_margin      |-> Bench(35, 25, 15),
   cost_to_income_ratio     |-> Bench(600, 700, 800),
   earnings_per_share       |-> Bench(80, 50, 20),
   liquidity_coverage_ratio |-> Bench(1200, 1100, 1000),
   net_stable_funding_ratio |-> Bench(1100, 1050, 1000),
   loan_to_deposit_ratio    |-> Bench(800, 850, 900),
   cash_ratio               |-> Bench(100, 70, 50)]

(* C17: for every scored metric the displayed good/fair/poor benchmarks    *)
(* equal the engine's good/fair/poor breakpoints.                          *)
C17_BenchmarksAgree ==
  \A m \in DOMAIN latest \cap Metrics :
    /\ get_metric_info[m].good = AllConfig[m].good
    /\ get_metric_info[m].fair = AllConfig[m].fair
    /\ get_metric_info[m].poor = AllConfig[m].poor

----------------------------------------------------------------------------
(* The heuristic scores of the views.  Scores and adjustments are held in  *)
(* tenths of a score point (5.0 is 50), metric values in tenths as before. *)

(* historical_data[m]: one column of the history *)
Column(data, m) == [i \in 1..Len(data) |-> data[i][m]]

RECURSIVE SeqSum(_)
SeqSum(s) == IF s = <<>> THEN 0 ELSE Head(s) + SeqSum(Tail(s))

(* Series.std() is the sample standard deviation sqrt(S / (n*(n-1))) with  *)
(* S = n*sum(x^2) - sum(x)^2; it is NaN for fewer than two values, and     *)
(* every comparison with NaN is False.                                     *)
StdScaled(s) ==
  Len(s) * SeqSum([i \in 1..Len(s) |-> s[i] * s[i]]) - SeqSum(s) * SeqSum(s)

(* s.std() < t and s.std() > t, for t in tenths *)
StdBelow(s, t) == Len(s) >= 2 /\ StdScaled(s) < t * t * Len(s) * (Len(s) - 1)

StdAbove(s, t) == Len(s) >= 2 /\ StdScaled(s) > t * t * Len(s) * (Len(s) - 1)

calculate_management_quality_score_bonus(data) ==
  LET car == Column(data, "capital_adequacy_ratio")
      npl == Column(data, "npl_ratio")
      roa == Column(data, "return_on_assets")
      lcr == Column(data, "liquidity_coverage_ratio")
      npl_trend == npl[Len(npl)] - npl[1]
      capital == IF StdBelow(car, 10) THEN 10
                 ELSE IF StdAbove(car, 20) THEN 0 - 10 ELSE 0
      trend == IF npl_trend < 0 - 5 THEN 15
               ELSE IF npl_trend > 5 THEN 0 - 15 ELSE 0
      profit == IF StdBelow(roa, 2) THEN 10
                ELSE IF StdAbove(roa, 5) THEN 0 - 10 ELSE 0
      liquid == IF SeqSum(lcr) > 1200 * Len(lcr) THEN 15
                ELSE IF SeqSum(lcr) < 1050 * Len(lcr) THEN 0 - 10 ELSE 0
  IN Min(100, Max(10, 50 + capital + trend + profit + liquid))

(* overview.py 172-211 *)
calculate_management_quality_score(data) ==
  LET car == Column(data, "capital_adequacy_ratio")
      npl == Column(data, "npl_ratio")
      roa == Column(data, "return_on_assets")
      lcr == Column(data, "liquidity_coverage_ratio")
      npl_trend == npl[Len(npl)] - npl[1]
      capital == IF StdBelow(car, 10) THEN 10
                 ELSE IF StdAbove(car, 20) THEN 0 - 10 ELSE 0
      trend == IF npl_trend < 0 - 5 THEN 15
               ELSE IF npl_trend > 5 THEN 0 - 15 ELSE 0
      profit == IF StdBelow(roa, 2) THEN 10
                ELSE IF StdAbove(roa, 5) THEN 0 - 10 ELSE 0
      liquid == IF SeqSum(lcr) > 1200 * Len(lcr) THEN 5
                ELSE IF SeqSum(lcr) < 1050 * Len(lcr) THEN 0 - 10 ELSE 0
  IN Min(100, Max(10, 50 + capital + trend + profit + liquid))

calculate_liquidity_risk_score_unclamped(latest_data, data) ==
  LET lcr == latest_data.liquidity_coverage_ratio
      nsfr == latest_data.net_stable_funding_ratio
      ltd == latest_data.loan_to_deposit_ratio
      a == IF lcr < 1000 THEN 30 ELSE IF lcr < 1100 THEN 10
           ELSE IF lcr > 1300 THEN 0 - 10 ELSE 0
      b == IF nsfr < 1000 THEN 20 ELSE IF nsfr < 1050 THEN 5
           ELSE IF nsfr > 1200 THEN 0 - 5 ELSE 0
      c == IF ltd > 950 THEN 15 ELSE IF ltd > 900 THEN 5
           ELSE IF ltd < 800 THEN 0 - 5 ELSE 0
      d == IF StdAbove(Column(data, "liquidity_coverage_ratio"), 100) THEN 5 ELSE 0
  IN 50 + a + b + c + d

(* liquidity.py 487-524 *)
calculate_liquidity_risk_score(latest_data, data) ==
  LET lcr == latest_data.liquidity_coverage_ratio
      nsfr == latest_data.net_stable_funding_ratio
      ltd == latest_data.loan_to_deposit_ratio
      a == IF lcr < 1000 THEN 30 ELSE IF lcr < 1100 THEN 10
           ELSE IF lcr > 1300 THEN 0 - 10 ELSE 0
      b == IF nsfr < 1000 THEN 20 ELSE IF nsfr < 1050 THEN 5
           ELSE IF nsfr > 1200 THEN 0 - 5 ELSE 0
      c == IF ltd > 950 THEN 15 ELSE IF ltd > 900 THEN 5
           ELSE IF ltd < 800 THEN 0 - 5 ELSE 0
      d == IF StdAbove(Column(data, "liquidity_coverage_ratio"), 100) THEN 5 ELSE 0
  IN Min(100, Max(10, 50 + a + b + c + d))

calculate_asset_quality_risk_score_coverage(latest_data) ==
  LET npl == latest_data.npl_ratio
      coverage == latest_data.coverage_ratio
      provisions == latest_data.loan_loss_provisions
      classification == latest_data.asset_classification
      a == IF npl > 30 THEN 20 ELSE IF npl > 20 THEN 10
           ELSE IF npl < 10 THEN 0 - 10 ELSE 0
      b == IF coverage < 600 THEN 0 - 15 ELSE IF coverage > 1000 THEN 5 ELSE 0
      c == IF provisions > 15 THEN 10 ELSE IF provisions < 5 THEN 0 - 5 ELSE 0
      d == IF classification > 50 THEN 10
           ELSE IF classification < 30 THEN 0 - 5 ELSE 0
  IN Min(100, Max(10, 50 + a + b + c + d))

(* asset_quality.py 447-482 *)
calculate_asset_quality_risk_score(latest_data) ==
  LET npl == latest_data.npl_ratio
      coverage == latest_data.coverage_ratio
      provisions == latest_data.loan_loss_provisions
      classification == latest_data.asset_classification
      a == IF npl > 30 THEN 20 ELSE IF npl > 20 THEN 10
           ELSE IF npl < 10 THEN 0 - 10 ELSE 0
      b == IF coverage < 600 THEN 15 ELSE IF coverage > 1000 THEN 0 - 5 ELSE 0
      c == IF provisions > 15 THEN 10 ELSE IF provisions < 5 THEN 0 - 5 ELSE 0
      d == IF classification > 50 THEN 10
           ELSE IF classification < 30 THEN 0 - 5 ELSE 0
  IN Min(100, Max(10, 50 + a + b + c + d))

(* the thresholds the two risk scores compare the latest values with *)
LiquidityRiskThresholds ==
  [liquidity_coverage_ratio |-> {1000, 1100, 1300},
   net_stable_funding_ratio |-> {1000, 1050, 1200},
   loan_to_deposit_ratio    |-> {950, 900, 800}]

AssetQualityRiskThresholds ==
  [npl_ratio            |-> {30, 20, 10},
   coverage_ratio       |-> {600, 1000},
   loan_loss_provisions |-> {15, 5},
   asset_classification |-> {50, 30}]

(* each threshold and the nearest one-decimal values on either side *)
NearThreshold(T) == { t + d : t \in T, d \in (0 - 1)..1 }

(* Differences between two rows that put their standard deviation         *)
(* |d| / sqrt(2) below every threshold (0), between t/sqrt(2) and t (t),   *)
(* and above t (2t).                                                       *)
StdSteps(T) == {0} \cup T \cup { 2 * t : t \in T }

(* Histories for the liquidity view: the latest row around the thresholds  *)
(* of the three ratios, the earlier row moving the LCR volatility across   *)
(* 10.                                                                     *)
LiquidityHistories ==
  UNION { { <<l>> } \cup
          { <<[l EXCEPT !.liquidity_coverage_ratio = @ + d], l>> : d \in StdSteps({100}) } :
          l \in { [ScenarioRecord EXCEPT !.liquidity_coverage_ratio = x,
                                         !.net_stable_funding_ratio = y,
                                         !.loan_to_deposit_ratio = z] :
                    x \in NearThreshold(LiquidityRiskThresholds.liquidity_coverage_ratio),
                    y \in NearThreshold(LiquidityRiskThresholds.net_stable_funding_ratio),
                    z \in NearThreshold(LiquidityRiskThresholds.loan_to_deposit_ratio) } }

(* Histories for the asset quality view: the latest row around the         *)
(* thresholds of the four indicators.                                      *)
AssetQualityHistories ==
  UNION { { <<l>>, <<ScenarioRecord, l>> } :
          l \in { [ScenarioRecord EXCEPT !.npl_ratio = w,
                                         !.coverage_ratio = x,
                                         !.loan_loss_provisions = y,
                                         !.asset_classification = z] :
                    w \in NearThreshold(AssetQualityRiskThresholds.npl_ratio),
                    x \in NearThreshold(AssetQualityRiskThresholds.coverage_ratio),
                    y \in NearThreshold(AssetQualityRiskThresholds.loan_loss_provisions),
                    z \in NearThreshold(AssetQualityRiskThresholds.asset_classification) } }

(* Histories for the management assessment: the average LCR around 105    *)
(* and 120, the NPL trend around -0.5 and 0.5, the CAR and ROA volatility  *)
(* across their thresholds.                                                *)
ManagementHistories ==
  { <<[l EXCEPT !.capital_adequacy_ratio = @ + c,
                !.return_on_assets = @ + r,
                !.npl_ratio = @ - t], l>> :
      l \in { [ScenarioRecord EXCEPT !.liquidity_coverage_ratio = x] :
                x \in NearThreshold({1050, 1200}) },
      c \in StdSteps({10, 20}),
      r \in StdSteps({2, 5}),
      t \in NearThreshold({0 - 5, 5}) }

InitHeuristics ==
  /\ historical_data \in
       LiquidityHistories \cup AssetQualityHistories \cup ManagementHistories
  /\ pc = "views"
  /\ overall_score = NoScore
  /\ metric_scores = [m \in Metrics |-> NoScore]
  /\ category_scores = [c \in Categories |-> NoScore]
  /\ overview_score = NoScore
  /\ score_info = NoInfo
  /\ commentary_score = NoScore
  /\ mgmt_score = NoScore
  /\ liquidity_risk_score = NoScore
  /\ asset_quality_risk_score = NoScore
  /\ api_key = FALSE
  /\ commentary = NoCommentary
  /\ last_call = NoCall
  /\ tab_results = NoTabResults
  /\ session_state = NoSession

(* overview.py 131 *)
RenderManagementQuality ==
  /\ pc = "views"
  /\ mgmt_score' = calculate_management_quality_score(historical_data)
  /\ pc' = "asset_quality"
  /\ UNCHANGED <<historical_data, overall_score, metric_scores, category_scores,
                 overview_score, score_info, commentary_score,
                 liquidity_risk_score, asset_quality_risk_score, commentary_vars, session_vars>>

(* asset_quality.py 15 and 218 *)
RenderAssetQualityRisk ==
  /\ pc = "asset_quality"
  /\ asset_quality_risk_score' =
       calculate_asset_quality_risk_score(Last(historical_data))
  /\ pc' = "liquidity"
  /\ UNCHANGED <<historical_data, overall_score, metric_scores, category_scores,
                 overview_score, score_info, commentary_score,
                 mgmt_score, liquidity_risk_score, commentary_vars, session_vars>>

(* liquidity.py 14 and 115 *)
RenderLiquidityRisk ==
  /\ pc = "liquidity"
  /\ liquidity_risk_score' =
       calculate_liquidity_risk_score(Last(historical_data), historical_data)
  /\ pc' = "rendered"
  /\ UNCHANGED <<historical_data, overall_score, metric_scores, category_scores,
                 overview_score, score_info, commentary_score,
                 mgmt_score, asset_quality_risk_score, commentary_vars, session_vars>>

NextHeuristics ==
  RenderManagementQuality \/ RenderAssetQualityRisk \/ RenderLiquidityRisk

SpecHeuristics == InitHeuristics /\ [][NextHeuristics]_vars

(* min(10.0, max(1.0, 5.0 + total)) in tenths *)
ClampedFromNeutral(total) == Min(100, Max(10, 50 + total))

(* C19: each of the three heuristic scores is the neutral 5.0 plus one     *)
(* fixed adjustment (or none) per factor, clamped, and lies in [1, 10].    *)
C19_HeuristicRange ==
  /\ mgmt_score # NoScore =>
       /\ 10 <= mgmt_score /\ mgmt_score <= 100
       /\ \E a \in {10, 0, 0 - 10}, b \in {15, 0, 0 - 15},
             c \in {10, 0, 0 - 10}, d \in {5, 0, 0 - 10} :
            mgmt_score = ClampedFromNeutral(a + b + c + d)
  /\ asset_quality_risk_score # NoScore =>
       /\ 10 <= asset_quality_risk_score /\ asset_quality_risk_score <= 100
       /\ \E a \in {20, 10, 0, 0 - 10}, b \in {15, 0, 0 - 5},
             c \in {10, 0, 0 - 5}, d \in {10, 0, 0 - 5} :
            asset_quality_risk_score = ClampedFromNeutral(a + b + c + d)
  /\ liquidity_risk_score # NoScore =>
       /\ 10 <= liquidity_risk_score /\ liquidity_risk_score <= 100
       /\ \E a \in {30, 10, 0, 0 - 10}, b \in {20, 5, 0, 0 - 5},
             c \in {15, 5, 0, 0 - 5}, d \in {5, 0} :
            liquidity_risk_score = ClampedFromNeutral(a + b + c + d)

(* every adjustment of the liquidity risk score is at its largest: the     *)
(* sum 12.0 is brought back to 10.0                                        *)
C19_Witness ==
  /\ pc = "rendered"
  /\ latest.liquidity_coverage_ratio < 1000
  /\ latest.net_stable_funding_ratio < 1000
  /\ latest.loan_to_deposit_ratio > 950
  /\ StdAbove(Column(historical_data, "liquidity_coverage_ratio"), 100)
  /\ liquidity_risk_score = 100
  /\ mgmt_score # NoScore
  /\ asset_quality_risk_score # NoScore

(* the values a latest ratio is moved to *)
Alternatives(T) == NearThreshold(T) \cup ExtremeValues

----------------------------------------------------------------------------
(* The narrative generator.  A returned text is held as a record of its    *)
(* parts that depend on the arguments; the institution name and the fixed  *)
(* wording are left out.  The text of the remote model is not known and is *)
(* one value, RemoteText.                                                  *)

Abs(x) == IF x < 0 THEN 0 - x ELSE x

(* a / b to the nearest integer, ties to even, for a >= 0 and b > 0: the   *)
(* ':.1f' format applied to a value held as a fraction                     *)
RoundHalfEven(a, b) ==
  LET q == a \div b
      r == a % b
  IN IF 2 * r > b \/ (2 * r = b /\ q % 2 = 1) THEN q + 1 ELSE q

RemoteText == [kind |-> "remote"]

(* commentary_generator.py 287-303 *)
generate_fallback_overall_commentary(bank_data, score) ==
  LET band == IF score >= 80 * (OverallUnit \div 10) THEN
                <<"demonstrates strong financial health", "presents low credit risk">>
              ELSE IF score >= 65 * (OverallUnit \div 10) THEN
                <<"shows solid financial performance", "represents moderate credit risk">>
              ELSE IF score >= 50 * (OverallUnit \div 10) THEN
                <<"exhibits mixed financial indicators", "requires careful monitoring">>
              ELSE
                <<"shows areas of financial concern", "presents elevated credit risk">>
  IN [kind |-> "fallback_overall", assessment |-> band[1], recommendation |-> band[2],
      score |-> RoundHalfEven(10 * score, OverallUnit)]

(* commentary_generator.py 228-264; metric_info is the benchmark of the    *)
(* metric, change_pct is in tenths of a percent                            *)
generate_fallback_commentary(metric_data, metric_name, metric_info) ==
  IF Len(metric_data) < 2 THEN [kind |-> "insufficient_analysis"]
  ELSE
    LET current == metric_data[Len(metric_data)]
        previous == metric_data[Len(metric_data) - 1]
        change == current - previous
        change_pct == IF previous # 0
                      THEN RoundHalfEven(Abs(change) * 1000, Abs(previous)) ELSE 0
        trend == IF change > 0 THEN "increased"
                 ELSE IF change < 0 THEN "decreased" ELSE "remained stable"
        performance ==
          IF metric_info.good # 0 /\ metric_info.fair # 0 THEN
            IF metric_info.good > metric_info.fair THEN
              IF current >= metric_info.good THEN "performing well above industry benchmarks"
              ELSE IF current >= metric_info.fair THEN "meeting industry standards"
              ELSE "below industry benchmarks and requires attention"
            ELSE
              IF current <= metric_info.good THEN "performing well above industry benchmarks"
              ELSE IF current <= metric_info.fair THEN "meeting industry standards"
              ELSE "above industry benchmarks and requires attention"
          ELSE "within acceptable ranges"
    IN [kind |-> "fallback_metric", metric |-> metric_name, trend |-> trend,
        change_pct |-> change_pct, current |-> current, performance |-> performance]

(* commentary_generator.py 266-285 *)
generate_fallback_section_commentary(section_data, section_name) ==
  LET compared == { m \in DOMAIN section_data : Len(section_data[m]) >= 2 }
      improving_metrics ==
        Cardinality({ m \in compared :
          section_data[m][Len(section_data[m])] > section_data[m][Len(section_data[m]) - 1] })
      declining_metrics ==
        Cardinality({ m \in compared :
          section_data[m][Len(section_data[m])] < section_data[m][Len(section_data[m]) - 1] })
  IN [kind |-> "fallback_section", section |-> section_name,
      trend |-> IF improving_metrics > declining_metrics THEN "showing overall improvement"
                ELSE IF declining_metrics > improving_metrics
                       THEN "showing some areas of concern"
                ELSE "remaining relatively stable"]

(* what a remote request can come to: a text, or any exception raised in   *)
(* the try block                                                           *)
RemoteOutcomes == {"returned", "raised"}

(* commentary_generator.py 9-91; key is OPENAI_API_KEY, response the       *)
(* outcome of the request if one is made                                   *)
generate_metric_commentary(key, response, metric_data, metric_name, metric_info) ==
  IF ~key THEN generate_fallback_commentary(metric_data, metric_name, metric_info)
  ELSE IF Len(metric_data) < 2 THEN [kind |-> "insufficient_trend"]
  ELSE IF response = "raised"
    THEN generate_fallback_commentary(metric_data, metric_name, metric_info)
  ELSE RemoteText

(* commentary_generator.py 93-155 *)
generate_section_commentary(key, response, section_data, section_name) ==
  IF ~key THEN generate_fallback_section_commentary(section_data, section_name)
  ELSE IF response = "raised"
    THEN generate_fallback_section_commentary(section_data, section_name)
  ELSE RemoteText

generate_overall_commentary_reraise(key, response, bank_data, score) ==
  IF ~key THEN generate_fallback_overall_commentary(bank_data, score)
  ELSE IF response = "raised" THEN [kind |-> "exception"]
  ELSE RemoteText

(* commentary_generator.py 157-226 *)
generate_overall_commentary(key, response, bank_data, score) ==
  IF ~key THEN generate_fallback_overall_commentary(bank_data, score)
  ELSE IF response = "raised" THEN generate_fallback_overall_commentary(bank_data, score)
  ELSE RemoteText

(* the section_data dictionaries the four category views build *)
SectionData(data, cat) == [m \in DOMAIN ConfigOf(cat) |-> Column(data, m)]

(* Histories for the narratives: the scenario record alone, and two rows   *)
(* that differ in one metric, whose other value is zero or lies around the *)
(* good and fair benchmarks of that metric.                                *)
CommentaryHistories ==
  { <<ScenarioRecord>> } \cup
  UNION { UNION { { <<ScenarioRecord, [ScenarioRecord EXCEPT ![m] = v]>>,
                    <<[ScenarioRecord EXCEPT ![m] = v], ScenarioRecord>> } :
                  v \in {0} \cup NearThreshold({get_metric_info[m].good,
                                                get_metric_info[m].fair}) } :
          m \in Metrics }

(* the scores given to generate_overall_commentary: around the bands 8.0,  *)
(* 6.5 and 5.0 of the fallback text, and the two ends of the scale         *)
CommentaryScores ==
  { e * (OverallUnit \div 10) + d : e \in {80, 65, 50}, d \in (0 - 1)..1 }
    \cup { 1 * OverallUnit, 10 * OverallUnit }

InitCommentary ==
  /\ historical_data \in CommentaryHistories
  /\ pc = "commentary"
  /\ overall_score = NoScore
  /\ metric_scores = [m \in Metrics |-> NoScore]
  /\ category_scores = [c \in Categories |-> NoScore]
  /\ overview_score = NoScore
  /\ score_info = NoInfo
  /\ commentary_score \in CommentaryScores
  /\ mgmt_score = NoScore
  /\ liquidity_risk_score = NoScore
  /\ asset_quality_risk_score = NoScore
  /\ api_key \in BOOLEAN
  /\ commentary = NoCommentary
  /\ last_call = NoCall
  /\ tab_results = NoTabResults
  /\ session_state = NoSession

(* capitalization.py 222, asset_quality.py 434, profitability.py 522,      *)
(* liquidity.py 450                                                        *)
MetricCommentary ==
  /\ pc = "commentary"
  /\ \E m \in Metrics, response \in RemoteOutcomes :
       /\ commentary' = generate_metric_commentary(api_key, response,
                          Column(historical_data, m), m, get_metric_info[m])
       /\ last_call' = [fn |-> "generate_metric_commentary", arg |-> m,
                        remote |-> IF api_key /\ Len(historical_data) >= 2
                                   THEN response ELSE "not_called"]
  /\ pc' = "returned"
  /\ UNCHANGED <<historical_data, overall_score, metric_scores, category_scores,
                 overview_score, score_info, commentary_score, view_vars, api_key, session_vars>>

(* capitalization.py 122, asset_quality.py 304, profitability.py 377,      *)
(* liquidity.py 285                                                        *)
SectionCommentary ==
  /\ pc = "commentary"
  /\ \E cat \in Categories, response \in RemoteOutcomes :
       /\ commentary' = generate_section_commentary(api_key, response,
                          SectionData(historical_data, cat), cat)
       /\ last_call' = [fn |-> "generate_section_commentary", arg |-> cat,
                        remote |-> IF api_key THEN response ELSE "not_called"]
  /\ pc' = "returned"
  /\ UNCHANGED <<historical_data, overall_score, metric_scores, category_scores,
                 overview_score, score_info, commentary_score, view_vars, api_key, session_vars>>

(* overview.py 116 *)
OverallCommentary ==
  /\ pc = "commentary"
  /\ \E response \in RemoteOutcomes :
       /\ commentary' = generate_overall_commentary(api_key, response,
                          historical_data, commentary_score)
       /\ last_call' = [fn |-> "generate_overall_commentary", arg |-> "bank_data",
                        remote |-> IF api_key THEN response ELSE "not_called"]
  /\ pc' = "returned"
  /\ UNCHANGED <<historical_data, overall_score, metric_scores, category_scores,
                 overview_score, score_info, commentary_score, view_vars, api_key, session_vars>>

NextCommentary == MetricCommentary \/ SectionCommentary \/ OverallCommentary

SpecCommentary == InitCommentary /\ [][NextCommentary]_vars

(* the local fallback text for the arguments of the last call *)
FallbackOfLastCall ==
  CASE last_call.fn = "generate_metric_commentary" ->
         generate_fallback_commentary(Column(historical_data, last_call.arg),
                                      last_call.arg, get_metric_info[last_call.arg])
    [] last_call.fn = "generate_section_commentary" ->
         generate_fallback_section_commentary(
           SectionData(historical_data, last_call.arg), last_call.arg)
    [] last_call.fn = "generate_overall_commentary" ->
         generate_fallback_overall_commentary(historical_data, commentary_score)

(* C18: a generate_* call made without an API key, or whose remote request *)
(* raised, has returned, and returned the text of its generate_fallback_*  *)
(* function on the same arguments; no call ends in an error.               *)
C18_NarrativeFallback ==
  /\ pc \in {"commentary", "returned"}
  /\ commentary.kind # "exception"
  /\ (last_call # NoCall /\ (~api_key \/ last_call.remote = "raised")) =>
       /\ pc = "returned"
       /\ commentary = FallbackOfLastCall

(* the key is set, the request of generate_overall_commentary raised, and  *)
(* the fallback text for a score in the 6.5 band came back                 *)
C18_Witness ==
  /\ api_key
  /\ last_call.fn = "generate_overall_commentary"
  /\ last_call.remote = "raised"
  /\ commentary.kind = "fallback_overall"
  /\ commentary.recommendation = "represents moderate credit risk"

----------------------------------------------------------------------------
(* The figures of the Profitability and Liquidity tabs.                    *)

(* int(x) for x = n / d, d > 0: truncation toward zero *)
Trunc(n, d) == IF n >= 0 THEN n \div d ELSE 0 - ((0 - n) \div d)

(* liquidity.py 601-624 without the cap: int(runway), where runway is      *)
(* base_runway + lcr_adjustment + (cash_ratio - 8) * 5; twice the runway   *)
(* is an integer for values in tenths                                      *)
liquidity_runway_int(latest_data) ==
  LET cash_ratio == latest_data.cash_ratio
      lcr == latest_data.liquidity_coverage_ratio
      lcr_adjustment == IF lcr > 1300 THEN 60
                        ELSE IF lcr > 1100 THEN 30
                        ELSE IF lcr > 1000 THEN 0 ELSE 0 - 30
  IN Trunc(2 * (30 + lcr_adjustment) + (cash_ratio - 80), 2)

calculate_liquidity_runway_uncapped(latest_data) == liquidity_runway_int(latest_data)

(* liquidity.py 601-625 *)
calculate_liquidity_runway(latest_data) ==
  Max(7, Min(180, liquidity_runway_int(latest_data)))

calculate_efficiency_score_jump(latest_data) ==
  LET cir == latest_data.cost_to_income_ratio
      hundredth == ScoreUnit \div 100
  IN IF cir <= 500 THEN 10 * ScoreUnit
     ELSE IF cir <= 600 THEN 8 * ScoreUnit + 2 * (600 - cir) * hundredth
     ELSE IF cir <= 700 THEN 5 * ScoreUnit + 3 * (700 - cir) * hundredth
     ELSE IF cir <= 800 THEN 2 * ScoreUnit + 3 * (800 - cir) * hundredth
     ELSE IF cir < 900 THEN Max(1 * ScoreUnit, 3 * (900 - cir) * hundredth)
     ELSE 1 * ScoreUnit

(* profitability.py 582-596, scaled by ScoreUnit *)
calculate_efficiency_score(latest_data) ==
  LET cir == latest_data.cost_to_income_ratio
      hundredth == ScoreUnit \div 100
  IN IF cir <= 500 THEN 10 * ScoreUnit
     ELSE IF cir <= 600 THEN 8 * ScoreUnit + 2 * (600 - cir) * hundredth
     ELSE IF cir <= 700 THEN 5 * ScoreUnit + 3 * (700 - cir) * hundredth
     ELSE IF cir <= 800 THEN 2 * ScoreUnit + 3 * (800 - cir) * hundredth
     ELSE IF cir < 900 THEN Max(1 * ScoreUnit, 2 * (900 - cir) * hundredth)
     ELSE 1 * ScoreUnit

(* liquidity.py 571-585, in tenths of a score point *)
calculate_funding_diversification_score(latest_data) ==
  LET ltd == latest_data.loan_to_deposit_ratio
  IN IF ltd < 750 THEN 90
     ELSE IF ltd < 850 THEN 70
     ELSE IF ltd < 950 THEN 50
     ELSE 30

(* liquidity.py 139-146: the label shown for a funding score *)
funding_label_of(funding_score) ==
  IF funding_score >= 80 THEN "Well diversified funding base"
  ELSE IF funding_score >= 60 THEN "Moderately diversified funding"
  ELSE "Concentrated funding sources"

(* profitability.py 535-580: the 'Profitability Score' of the tab, scaled  *)
(* by CatUnit (sub-scores by ScoreUnit, weights in hundredths)             *)
views_calculate_profitability_score(latest_data) ==
  LET roa == latest_data.return_on_assets
      roe == latest_data.return_on_equity
      nim == latest_data.net_interest_margin
      eps == latest_data.earnings_per_share
      roa_score == IF roa >= 12 THEN 10 * ScoreUnit
                   ELSE IF roa >= 8 THEN 5 * ScoreUnit + 5 * (roa - 8) * (ScoreUnit \div 4)
                   ELSE Max(1 * ScoreUnit, 5 * roa * (ScoreUnit \div 8))
      roe_score == IF roe >= 120 THEN 10 * ScoreUnit
                   ELSE IF roe >= 80 THEN 5 * ScoreUnit + 5 * (roe - 80) * (ScoreUnit \div 40)
                   ELSE Max(1 * ScoreUnit, 5 * roe * (ScoreUnit \div 80))
      nim_score == IF nim >= 35 THEN 10 * ScoreUnit
                   ELSE IF nim >= 25 THEN 5 * ScoreUnit + 5 * (nim - 25) * (ScoreUnit \div 10)
                   ELSE Max(1 * ScoreUnit, 5 * nim * (ScoreUnit \div 25))
      eps_score == IF eps >= 80 THEN 10 * ScoreUnit
                   ELSE IF eps >= 50 THEN 5 * ScoreUnit + 5 * (eps - 50) * (ScoreUnit \div 30)
                   ELSE Max(1 * ScoreUnit, 5 * eps * (ScoreUnit \div 50))
      score == roa_score * 30 + roe_score * 30 + nim_score * 25 + eps_score * 15
  IN Min(10 * CatUnit, Max(1 * CatUnit, score))

(* how far, in tenths, the tab inputs range on either side of a threshold  *)
TabMargin == 50

(* the largest cash ratio tried, in tenths *)
MaxCash == 300

AroundThresholds(T) == { t + d : t \in T, d \in (0 - TabMargin)..TabMargin }

(* Latest records for the two tabs: the runway inputs (LCR at its three    *)
(* thresholds, every cash ratio up to MaxCash and the extremes), the       *)
(* cost-to-income and loan-to-deposit ratios around their thresholds, and  *)
(* the profitability metrics over their grids.                             *)
TabRecords ==
  { [ScenarioRecord EXCEPT !.liquidity_coverage_ratio = x, !.cash_ratio = c] :
      x \in NearThreshold({1000, 1100, 1300}), c \in (0..MaxCash) \cup ExtremeValues }
  \cup
  { [ScenarioRecord EXCEPT !.cost_to_income_ratio = v] :
      v \in AroundThresholds({500, 600, 700, 800, 900}) \cup ExtremeValues }
  \cup
  { [ScenarioRecord EXCEPT !.loan_to_deposit_ratio = v] :
      v \in AroundThresholds({750, 850, 950}) \cup ExtremeValues }
  \cup
  UNION { { [b EXCEPT ![m] = v] : b \in BaseRecords, v \in Grid(m) } :
          m \in DOMAIN ProfitabilityConfig }

InitTabs ==
  /\ \E l \in TabRecords : historical_data = <<ScenarioRecord, l>>
  /\ pc = "profitability"
  /\ overall_score = NoScore
  /\ metric_scores = [m \in Metrics |-> NoScore]
  /\ category_scores = [c \in Categories |-> NoScore]
  /\ overview_score = NoScore
  /\ score_info = NoInfo
  /\ commentary_score = NoScore
  /\ mgmt_score = NoScore
  /\ liquidity_risk_score = NoScore
  /\ asset_quality_risk_score = NoScore
  /\ api_key = FALSE
  /\ commentary = NoCommentary
  /\ last_call = NoCall
  /\ tab_results = NoTabResults
  /\ session_state = NoSession

(* profitability.py 15 and 247-248 *)
RenderProfitabilityScores ==
  /\ pc = "profitability"
  /\ tab_results' =
       [tab_results EXCEPT
          !.profit_score = views_calculate_profitability_score(Last(historical_data)),
          !.efficiency_score = calculate_efficiency_score(Last(historical_data))]
  /\ pc' = "funding"
  /\ UNCHANGED <<historical_data, overall_score, metric_scores, category_scores,
                 overview_score, score_info, commentary_score, view_vars,
                 commentary_vars, session_state>>

(* liquidity.py 14 and 137-146 *)
RenderFundingDiversification ==
  /\ pc = "funding"
  /\ tab_results' =
       [tab_results EXCEPT
          !.funding_score = calculate_funding_diversification_score(Last(historical_data)),
          !.funding_label = funding_label_of(
             calculate_funding_diversification_score(Last(historical_data)))]
  /\ pc' = "runway"
  /\ UNCHANGED <<historical_data, overall_score, metric_scores, category_scores,
                 overview_score, score_info, commentary_score, view_vars,
                 commentary_vars, session_state>>

(* liquidity.py 179 *)
RenderLiquidityRunway ==
  /\ pc = "runway"
  /\ tab_results' =
       [tab_results EXCEPT !.runway_days = calculate_liquidity_runway(Last(historical_data))]
  /\ pc' = "tabs_done"
  /\ UNCHANGED <<historical_data, overall_score, metric_scores, category_scores,
                 overview_score, score_info, commentary_score, view_vars,
                 commentary_vars, session_state>>

NextTabs ==
  RenderProfitabilityScores \/ RenderFundingDiversification \/ RenderLiquidityRunway

SpecTabs == InitTabs /\ [][NextTabs]_vars

(* C21: the runway is an integer number of days in [7, 180]; it is the     *)
(* capped truncation of 30 + (60, 30, 0 or -30 by LCR band) +              *)
(* 5 * (cash_ratio - 8); and no higher LCR or cash ratio gives fewer days. *)
C21_Runway ==
  tab_results.runway_days # NoScore =>
    LET lcr == latest.liquidity_coverage_ratio
        band == IF lcr > 1300 THEN 60 ELSE IF lcr > 1100 THEN 30
                ELSE IF lcr > 1000 THEN 0 ELSE 0 - 30
        tenths == (30 + band) * 10 + 5 * (latest.cash_ratio - 80)
    IN /\ tab_results.runway_days \in 7..180
       /\ tab_results.runway_days = Max(7, Min(180, Trunc(tenths, 10)))
       /\ \A x \in NearThreshold({1000, 1100, 1300}) \cup ExtremeValues :
            x >= lcr =>
              calculate_liquidity_runway([latest EXCEPT !.liquidity_coverage_ratio = x])
                >= tab_results.runway_days
       /\ \A c \in (0..MaxCash) \cup ExtremeValues :
            c >= latest.cash_ratio =>
              calculate_liquidity_runway([latest EXCEPT !.cash_ratio = c])
                >= tab_results.runway_days

(* a runway strictly inside the caps, with a fractional part cut off:      *)
(* LCR 110.1, cash ratio 8.3 gives int(61.5) = 61                          *)
C21_Witness ==
  /\ pc = "tabs_done"
  /\ latest.liquidity_coverage_ratio = 1101
  /\ latest.cash_ratio = 83
  /\ tab_results.runway_days = 61

(* the cost-to-income ratios the efficiency score is compared over *)
CirValues == AroundThresholds({500, 600, 700, 800, 900}) \cup ExtremeValues

(* C22: the efficiency score lies in [1, 10], never rises with the         *)
(* cost-to-income ratio, is 10 up to 50, 8 at 60, 5 at 70, 2 at 80 and 1   *)
(* from 85 on, and moves by at most 0.03 per tenth of a point of the       *)
(* ratio, across 60, 70, 80 and 90 too.                                    *)
C22_Efficiency ==
  tab_results.efficiency_score # NoScore =>
    LET cir == latest.cost_to_income_ratio
        score == tab_results.efficiency_score
    IN /\ InScoreRange(score, ScoreUnit)
       /\ \A v \in CirValues :
            v >= cir =>
              calculate_efficiency_score([latest EXCEPT !.cost_to_income_ratio = v]) <= score
       /\ cir <= 500 => score = 10 * ScoreUnit
       /\ cir = 600 => score = 8 * ScoreUnit
       /\ cir = 700 => score = 5 * ScoreUnit
       /\ cir = 800 => score = 2 * ScoreUnit
       /\ cir >= 850 => score = 1 * ScoreUnit
       /\ \A d \in {0 - 1, 1} :
            Abs(calculate_efficiency_score([latest EXCEPT !.cost_to_income_ratio = cir + d])
                  - score) <= 3 * (ScoreUnit \div 100)

(* just past 80: the last segment starts at 2 * (90 - 80.1) / 10 = 1.98    *)
C22_Witness ==
  /\ pc = "tabs_done"
  /\ latest.cost_to_income_ratio = 801
  /\ tab_results.efficiency_score = 198 * (ScoreUnit \div 100)

(* C23: the funding label shown is the tier the score function names for   *)
(* the loan-to-deposit ratio: score 9.0 below 75, 7.0 (well diversified)   *)
(* from 75 to below 85, 5.0 (moderately diversified) from 85 to below 95,  *)
(* 3.0 (concentrated) from 95.                                             *)
C23_FundingLabel ==
  tab_results.funding_label # "none" =>
    LET ltd == latest.loan_to_deposit_ratio
    IN /\ ltd < 750 => tab_results.funding_score = 90
       /\ (750 <= ltd /\ ltd < 850) =>
            /\ tab_results.funding_score = 70
            /\ tab_results.funding_label = "Well diversified funding base"
       /\ (850 <= ltd /\ ltd < 950) =>
            /\ tab_results.funding_score = 50
            /\ tab_results.funding_label = "Moderately diversified funding"
       /\ ltd >= 950 =>
            /\ tab_results.funding_score = 30
            /\ tab_results.funding_label = "Concentrated funding sources"

----------------------------------------------------------------------------
(* the difference of the two overall scores of a fully scored record *)
OverallGap == overall_score - overview_score

(* C24 as stated: weighted minus mean overall score is 0.05 * (asset       *)
(* quality score - liquidity score), so the two agree exactly when those   *)
(* two category scores agree and differ by 0.45 at most; category scores   *)
(* 8, 6, 7, 9 give 7.25 against 7.5.                                       *)
C24_Original ==
  pc = "done" =>
    /\ OverallGap = 5 * (category_scores.asset_quality - category_scores.liquidity)
    /\ (OverallGap = 0) <=> (category_scores.asset_quality = category_scores.liquidity)
    /\ Abs(OverallGap) <= 45 * (OverallUnit \div 100)
    /\ ScenarioScores => /\ overall_score = 725 * (OverallUnit \div 100)
                         /\ overview_score = 750 * (OverallUnit \div 100)

(* C24 (amended): the same relation; category scores 8, 6, 7, 9 give 7.35  *)
(* against 7.5.                                                            *)
C24_WeightedVersusMean ==
  pc = "done" =>
    /\ OverallGap = 5 * (category_scores.asset_quality - category_scores.liquidity)
    /\ (OverallGap = 0) <=> (category_scores.asset_quality = category_scores.liquidity)
    /\ Abs(OverallGap) <= 45 * (OverallUnit \div 100)
    /\ ScenarioScores => /\ overall_score = 735 * (OverallUnit \div 100)
                         /\ overview_score = 750 * (OverallUnit \div 100)

(* the two scores of the record with category scores 8, 6, 7, 9 differ by  *)
(* 0.05 * (6 - 9) = -0.15                                                  *)
C24_Witness ==
  /\ pc = "done"
  /\ ScenarioScores
  /\ OverallGap = 0 - 15 * (OverallUnit \div 100)

----------------------------------------------------------------------------
(* the smallest and the largest of the four category scores *)
LowestCategory == CHOOSE x \in { category_scores[c] : c \in Categories } :
                    \A c \in Categories : x <= category_scores[c]

HighestCategory == CHOOSE x \in { category_scores[c] : c \in Categories } :
                     \A c \in Categories : x >= category_scores[c]

(* C25: the weighted overall score lies between the smallest and the       *)
(* largest category score of the record, it is the weighted sum itself     *)
(* (the clamp leaves it as it is), and it is 1 only if all four category   *)
(* scores are 1.                                                           *)
C25_WithinCategories ==
  pc = "done" =>
    /\ 100 * LowestCategory <= overall_score
    /\ overall_score <= 100 * HighestCategory
    /\ overall_score = WeightedSum(category_scores)
    /\ overall_score = 1 * OverallUnit =>
         \A c \in Categories : category_scores[c] = 1 * CatUnit

(* three category scores are 1 and capitalization is above 1: the overall  *)
(* score is above 1 and below the capitalization score                     *)
C25_Witness ==
  /\ pc = "done"
  /\ category_scores.asset_quality = 1 * CatUnit
  /\ category_scores.profitability = 1 * CatUnit
  /\ category_scores.liquidity = 1 * CatUnit
  /\ category_scores.capitalization > 1 * CatUnit
  /\ overall_score > 1 * OverallUnit
  /\ overall_score < 100 * category_scores.capitalization

----------------------------------------------------------------------------
(* C27: the management quality score never exceeds 9.0, the liquidity risk *)
(* score is never below 3.0 and the asset quality risk score never below   *)
(* 2.5.                                                                    *)
C27_NarrowerRanges ==
  /\ mgmt_score # NoScore => mgmt_score <= 90
  /\ liquidity_risk_score # NoScore => liquidity_risk_score >= 30
  /\ asset_quality_risk_score # NoScore => asset_quality_risk_score >= 25

(* every bonus of the management score applies: steady CAR and ROA, NPL    *)
(* down by more than 0.5, average LCR above 120                            *)
C27_Witness ==
  /\ pc = "rendered"
  /\ StdBelow(Column(historical_data, "capital_adequacy_ratio"), 10)
  /\ StdBelow(Column(historical_data, "return_on_assets"), 2)
  /\ latest.npl_ratio - historical_data[1].npl_ratio < 0 - 5
  /\ mgmt_score = 90
  /\ liquidity_risk_score >= 30
  /\ asset_quality_risk_score >= 25

----------------------------------------------------------------------------
(* C28: the 'Profitability Score' of the Profitability tab equals the      *)
(* profitability category score of the scoring engine for the same record. *)
C28_SameProfitabilityScore ==
  tab_results.profit_score # NoScore =>
    tab_results.profit_score = calculate_profitability_score(latest)

----------------------------------------------------------------------------
(* the metrics of section cat that moved in their favorable (unfavorable)  *)
(* direction from the second-to-last row to the last                       *)
FavorableMoves(cat) ==
  { m \in DOMAIN ConfigOf(cat) :
      /\ Len(historical_data) >= 2
      /\ latest[m] # historical_data[Len(historical_data) - 1][m]
      /\ AtLeastAsFavorable(m, latest[m], historical_data[Len(historical_data) - 1][m]) }

UnfavorableMoves(cat) ==
  { m \in DOMAIN ConfigOf(cat) :
      /\ Len(historical_data) >= 2
      /\ latest[m] # historical_data[Len(historical_data) - 1][m]
      /\ AtLeastAsFavorable(m, historical_data[Len(historical_data) - 1][m], latest[m]) }

(* C29: the fallback section text says 'showing overall improvement' only  *)
(* when more metrics of the section moved favorably than unfavorably (a    *)
(* decrease of a lower-is-better metric is favorable), and 'showing some   *)
(* areas of concern' only when more moved unfavorably.                     *)
C29_FavorableDirection ==
  commentary.kind = "fallback_section" =>
    /\ commentary.trend = "showing overall improvement" =>
         Cardinality(FavorableMoves(commentary.section))
           > Cardinality(UnfavorableMoves(commentary.section))
    /\ commentary.trend = "showing some areas of concern" =>
         Cardinality(UnfavorableMoves(commentary.section))
           > Cardinality(FavorableMoves(commentary.section))

----------------------------------------------------------------------------
(* generate_sample_data.  Every number the code draws at random is drawn   *)
(* here from a small set: the base values of an institution are all at the *)
(* low end or all at the high end of their uniform ranges, the volatility  *)
(* of a year is 50% or 150%, and the noise of the trend factor is 0.       *)
(* Values are in tenths, risk_weighted_assets in millions, factors in      *)
(* percent; a year is held as its offset from the current year.  The      *)
(* random metadata (assets, employees, branches) is left out.             *)

years == (0 - 4)..0

BaseValues ==
  { [capital_adequacy_ratio |-> 120, tier1_ratio |-> 100, leverage_ratio |-> 80,
     risk_weighted_assets |-> 800000,
     npl_ratio |-> 5, loan_loss_provisions |-> 3, coverage_ratio |-> 600,
     asset_classification |-> 20,
     return_on_assets |-> 8, return_on_equity |-> 80, net_interest_margin |-> 25,
     cost_to_income_ratio |-> 550, earnings_per_share |-> 40,
     liquidity_coverage_ratio |-> 1100, net_stable_funding_ratio |-> 1050,
     loan_to_deposit_ratio |-> 700, cash_ratio |-> 80],
    [capital_adequacy_ratio |-> 180, tier1_ratio |-> 150, leverage_ratio |-> 120,
     risk_weighted_assets |-> 2000000,
     npl_ratio |-> 25, loan_loss_provisions |-> 12, coverage_ratio |-> 1200,
     asset_classification |-> 80,
     return_on_assets |-> 15, return_on_equity |-> 150, net_interest_margin |-> 40,
     cost_to_income_ratio |-> 750, earnings_per_share |-> 120,
     liquidity_coverage_ratio |-> 1500, net_stable_funding_ratio |-> 1300,
     loan_to_deposit_ratio |-> 900, cash_ratio |-> 150] }

VolatilityDraws == {50, 150}

(* base * factor * volatility, both in percent, cut to a tenth *)
Scaled(base, factor, volatility) == (base * factor * volatility) \div 10000

YearlyRecord_unclamped(base, i, volatility) ==
  LET trend_factor == 100 + i * 2
  IN [year |-> i - 4,
      capital_adequacy_ratio |-> Scaled(base.capital_adequacy_ratio, trend_factor, volatility),
      tier1_ratio |-> Max(60, Scaled(base.tier1_ratio, trend_factor, volatility)),
      leverage_ratio |-> Max(30, Scaled(base.leverage_ratio, trend_factor, volatility)),
      risk_weighted_assets |->
        ((base.risk_weighted_assets \div 100) * (100 + i * 10) * volatility) \div 100,
      npl_ratio |-> Max(1, Scaled(base.npl_ratio, 100 - i * 5, volatility)),
      loan_loss_provisions |-> Max(1, Scaled(base.loan_loss_provisions, 100 - i * 3, volatility)),
      coverage_ratio |-> Scaled(base.coverage_ratio, trend_factor, volatility),
      asset_classification |->
        Max(10, Scaled(base.asset_classification, 100 - i * 10, volatility)),
      return_on_assets |-> Max(1, Scaled(base.return_on_assets, trend_factor, volatility)),
      return_on_equity |-> Max(20, Scaled(base.return_on_equity, trend_factor, volatility)),
      net_interest_margin |-> Max(10, Scaled(base.net_interest_margin, trend_factor, volatility)),
      cost_to_income_ratio |->
        Max(400, Min(900, Scaled(base.cost_to_income_ratio, 100 - i * 2, volatility))),
      earnings_per_share |-> Max(10, Scaled(base.earnings_per_share, trend_factor, volatility)),
      liquidity_coverage_ratio |->
        Max(1000, Scaled(base.liquidity_coverage_ratio, trend_factor, volatility)),
      net_stable_funding_ratio |->
        Max(1000, Scaled(base.net_stable_funding_ratio, trend_factor, volatility)),
      loan_to_deposit_ratio |->
        Max(500, Min(1000, Scaled(base.loan_to_deposit_ratio, 100, volatility))),
      cash_ratio |-> Max(30, Scaled(base.cash_ratio, trend_factor, volatility))]

(* data_generator.py 65-96: the record of the i-th year, i = 0..4 *)
YearlyRecord(base, i, volatility) ==
  LET trend_factor == 100 + i * 2
  IN [year |-> i - 4,
      capital_adequacy_ratio |->
        Max(80, Scaled(base.capital_adequacy_ratio, trend_factor, volatility)),
      tier1_ratio |-> Max(60, Scaled(base.tier1_ratio, trend_factor, volatility)),
      leverage_ratio |-> Max(30, Scaled(base.leverage_ratio, trend_factor, volatility)),
      risk_weighted_assets |->
        ((base.risk_weighted_assets \div 100) * (100 + i * 10) * volatility) \div 100,
      npl_ratio |-> Max(1, Scaled(base.npl_ratio, 100 - i * 5, volatility)),
      loan_loss_provisions |-> Max(1, Scaled(base.loan_loss_provisions, 100 - i * 3, volatility)),
      coverage_ratio |-> Scaled(base.coverage_ratio, trend_factor, volatility),
      asset_classification |->
        Max(10, Scaled(base.asset_classification, 100 - i * 10, volatility)),
      return_on_assets |-> Max(1, Scaled(base.return_on_assets, trend_factor, volatility)),
      return_on_equity |-> Max(20, Scaled(base.return_on_equity, trend_factor, volatility)),
      net_interest_margin |-> Max(10, Scaled(base.net_interest_margin, trend_factor, volatility)),
      cost_to_income_ratio |->
        Max(400, Min(900, Scaled(base.cost_to_income_ratio, 100 - i * 2, volatility))),
      earnings_per_share |-> Max(10, Scaled(base.earnings_per_share, trend_factor, volatility)),
      liquidity_coverage_ratio |->
        Max(1000, Scaled(base.liquidity_coverage_ratio, trend_factor, volatility)),
      net_stable_funding_ratio |->
        Max(1000, Scaled(base.net_stable_funding_ratio, trend_factor, volatility)),
      loan_to_deposit_ratio |->
        Max(500, Min(1000, Scaled(base.loan_to_deposit_ratio, 100, volatility))),
      cash_ratio |-> Max(30, Scaled(base.cash_ratio, trend_factor, volatility))]

(* the DataFrames one institution can get: one record per year, in the     *)
(* order of years                                                          *)
GeneratedHistories ==
  { [k \in 1..Cardinality(years) |-> YearlyRecord(base, k - 1, volatility[k])] :
      base \in BaseValues, volatility \in [1..Cardinality(years) -> VolatilityDraws] }

(* data_generator.py 5-110 *)
generate_sample_data ==
  { [inst \in institutions |->
       [historical_data |-> h[inst],
        institution_type |-> IF inst = "Bank of America Corporation"
                             THEN "Bank" ELSE "Broker Dealer"]] :
      h \in [institutions -> GeneratedHistories] }

----------------------------------------------------------------------------
(* A session: main() is rerun from the top on every interaction, with      *)
(* st.session_state kept between the runs.                                 *)

InitSession ==
  /\ historical_data = <<>>
  /\ pc = "start"
  /\ overall_score = NoScore
  /\ metric_scores = [m \in Metrics |-> NoScore]
  /\ category_scores = [c \in Categories |-> NoScore]
  /\ overview_score = NoScore
  /\ score_info = NoInfo
  /\ commentary_score = NoScore
  /\ mgmt_score = NoScore
  /\ liquidity_risk_score = NoScore
  /\ asset_quality_risk_score = NoScore
  /\ api_key = FALSE
  /\ commentary = NoCommentary
  /\ last_call = NoCall
  /\ tab_results = NoTabResults
  /\ session_state = NoSession

SessionStart_regenerate ==
  /\ pc = "start"
  /\ \E data \in generate_sample_data :
       \E selected_bank \in DOMAIN data :
         /\ session_state' = [bank_data |-> data, selected_bank |-> selected_bank]
         /\ historical_data' = data[selected_bank].historical_data
  /\ pc' = "main"
  /\ UNCHANGED <<overall_score, metric_scores, category_scores, overview_score,
                 score_info, commentary_score, view_vars, commentary_vars, tab_results>>

(* app.py 111-125: the data set is generated if the session has none, the  *)
(* selectbox returns one of its keys, and that institution's data is what  *)
(* the rest of the run is given                                            *)
SessionStart ==
  /\ pc = "start"
  /\ \E data \in IF session_state.bank_data = NoBankData
                 THEN generate_sample_data ELSE {session_state.bank_data} :
       \E selected_bank \in DOMAIN data :
         /\ session_state' = [bank_data |-> data, selected_bank |-> selected_bank]
         /\ historical_data' = data[selected_bank].historical_data
  /\ pc' = "main"
  /\ UNCHANGED <<overall_score, metric_scores, category_scores, overview_score,
                 score_info, commentary_score, view_vars, commentary_vars, tab_results>>

(* a rerun within the session: the locals of the last run are gone,        *)
(* st.session_state stays                                                  *)
RerunSession ==
  /\ pc \in {"done", "error"}
  /\ pc' = "start"
  /\ overall_score' = NoScore
  /\ metric_scores' = [m \in Metrics |-> NoScore]
  /\ category_scores' = [c \in Categories |-> NoScore]
  /\ overview_score' = NoScore
  /\ score_info' = NoInfo
  /\ commentary_score' = NoScore
  /\ UNCHANGED <<historical_data, view_vars, commentary_vars, session_vars>>

NextSession == SessionStart \/ MainSidebar \/ RenderOverview \/ RerunSession

SpecSession == InitSession /\ [][NextSession]_vars

(* the records of every institution of the session's data set *)
GeneratedRecords ==
  UNION { { session_state.bank_data[inst].historical_data[k] :
              k \in 1..Len(session_state.bank_data[inst].historical_data) } :
          inst \in institutions }

(* C26: every generated record keeps the floors and caps of the generator, *)
(* every institution has five records in ascending year order, so no       *)
(* capital metric is below its 'poor' level and a second-to-last record    *)
(* exists.                                                                 *)
C26_GeneratedData ==
  session_state.bank_data # NoBankData =>
    /\ \A r \in GeneratedRecords :
         /\ r.capital_adequacy_ratio >= 80
         /\ r.tier1_ratio >= 60
         /\ r.leverage_ratio >= 30
         /\ r.liquidity_coverage_ratio >= 1000
         /\ r.net_stable_funding_ratio >= 1000
         /\ 400 <= r.cost_to_income_ratio /\ r.cost_to_income_ratio <= 900
         /\ 500 <= r.loan_to_deposit_ratio /\ r.loan_to_deposit_ratio <= 1000
         /\ \A m \in DOMAIN CapitalizationConfig : r[m] >= CapitalizationConfig[m].poor
    /\ \A inst \in institutions :
         LET h == session_state.bank_data[inst].historical_data
         IN /\ Len(h) = 5
            /\ \A k \in 1..(Len(h) - 1) : h[k].year < h[k + 1].year
            /\ Len(h) - 1 \in DOMAIN h
    /\ pc = "done" =>
         \A m \in DOMAIN CapitalizationConfig : metric_scores[m] >= 2 * ScoreUnit

(* the selected institution's latest record sits on the floors of the      *)
(* capital adequacy and liquidity coverage ratios, and has been scored     *)
C26_Witness ==
  /\ pc = "done"
  /\ latest.capital_adequacy_ratio = 80
  /\ latest.liquidity_coverage_ratio = 1000
  /\ latest.year = 0
  /\ metric_scores.capital_adequacy_ratio = 2 * ScoreUnit

(* C30: once the session holds a data set it is never replaced; in every   *)
(* run the selected bank is a key of it and the run works on that          *)
(* institution's records; the scores shown are those of these records.     *)
C30_SessionData ==
  [][ /\ session_state.bank_data # NoBankData =>
           session_state'.bank_data = session_state.bank_data
      /\ pc' \in {"main", "overview", "done"} =>
           /\ session_state'.bank_data # NoBankData
           /\ session_state'.selected_bank \in DOMAIN session_state'.bank_data
           /\ historical_data' =
                session_state'.bank_data[session_state'.selected_bank].historical_data
      /\ pc' = "done" =>
           /\ overall_score' = calculate_overall_score(
                session_state'.bank_data[session_state'.selected_bank].historical_data)
           /\ category_scores' = calculate_category_scores(
                session_state'.bank_data[session_state'.selected_bank].historical_data) ]_vars

(* a rerun is about to start in a session that already holds its data set  *)
C30_Witness ==
  /\ pc = "start"
  /\ session_state.bank_data # NoBankData
  /\ session_state.selected_bank = "Morgan Stanley"
  /\ historical_data = session_state.bank_data["Morgan Stanley"].historical_data

====
